---- MODULE Spec2Model ----
(***************************************************************************)
(* A model of the limit order book of limit_order_book_simulator:          *)
(* SimpleOrderBook (src/src/simple_order_book.cpp), its PriceLevel         *)
(* (src/unnamed/part_001, src/src/price_level.cpp) and the Order record.   *)
(*                                                                         *)
(* Order records live in a heap `recs` (shared_ptr<Order> targets); a      *)
(* handle is an index into it.  The index orders_ and the price levels     *)
(* hold handles, as the C++ containers hold shared pointers.               *)
(***************************************************************************)
EXTENDS Integers, Sequences, FiniteSets, TLC

\* ---------------------------------------------------------------- bounds
MaxOrders == 3      \* order ids handed out (1..MaxOrders)
MaxQty    == 2      \* largest order quantity submitted
MaxPrice  == 2      \* largest limit price submitted (ticks)
MaxRecs   == 3      \* Order records ever allocated (adds + modifies)
MaxDepth  == 3      \* largest depth asked of bid_levels / ask_levels
NumThreads == 2     \* threads calling one book concurrently
ConcMaxOrders == 2  \* order ids handed to the concurrent callers
ConcMaxRecs == 2    \* Order records the concurrent callers ever allocate
NumSubmitters == 2  \* threads calling submit_order on the engine
NumSymbols == 2     \* symbols orders are submitted for
NumWorkers == 1     \* worker threads of the engine
MaxSubmits == 3     \* submit_order calls started
SimMaxOrders == 3   \* orders submitted to the engine with its books
SimMaxRecs == 3     \* Order records the engine's books ever allocate
RaceMaxOrders == 3  \* order ids of the book with depth (one resting, two raced)
MaxCallbacks == 1   \* callback registrations made at the engine
StopWorkers == 3     \* worker threads of the engine that stop_simulation joins

Sides      == {"BUY", "SELL"}
OrderTypes == {"LIMIT", "MARKET", "STOP"}
Quantities == 0..MaxQty
Prices     == 1..MaxPrice

\* <<order_type, quantity, price>> of the orders submitted: LIMIT orders at
\* every quantity and price, MARKET orders with the canonical price 0, STOP
\* orders at the extreme quantities and the top price.
OrderInputs ==
    ({"LIMIT"} \X Quantities \X Prices)
      \cup ({"MARKET"} \X Quantities \X {0})
      \cup ({"STOP"} \X {0, MaxQty} \X {MaxPrice})

\* nullptr for a shared_ptr<Order>; handles are 1..Len(recs)
NULL == 0
\* std::map::end(): the past-the-end iterator (real keys are prices >= 0)
END == -1

VARIABLES
    recs,            \* heap of Order records
    orders_,         \* SimpleOrderBook::orders_ : order_id -> handle
    bids_,           \* SimpleOrderBook::bids_   : price -> PriceLevel
    asks_,           \* SimpleOrderBook::asks_   : price -> PriceLevel
    next_trade_id_,  \* SimpleOrderBook::next_trade_id_
    total_volume_,   \* SimpleOrderBook::total_volume_
    trade_count_,    \* SimpleOrderBook::trade_count_
    next_order_id_,  \* id the caller gives the next order
    events,          \* callbacks fired by the last operation, in order
    lastOp,          \* the last completed operation and its return value
    frame,           \* per thread: the call in progress, its locals, its position
    order_books_,    \* OrderBookSimulator::order_books_ : symbol_id -> book
    orders_processed_,  \* OrderBookSimulator::orders_processed_
    task_queue_,     \* OrderBookSimulator::task_queue_
    shutdown_,       \* OrderBookSimulator::shutdown_
    worker_threads_, \* OrderBookSimulator::worker_threads_ : worker -> position
    allocated,       \* order ids in the order next_order_id_ handed them out
    returned,        \* the submit_order calls that have returned, in order
    registered,      \* the register_*_callback calls made at the engine, in order
    invoked          \* the registrations whose callback has been called

bookVars == <<recs, orders_, bids_, asks_, next_trade_id_, total_volume_,
              trade_count_, events>>

engineVars == <<order_books_, orders_processed_, task_queue_, shutdown_,
                worker_threads_, allocated, returned, registered, invoked>>

vars == <<bookVars, next_order_id_, lastOp, frame, engineVars>>

\* ----------------------------------------------------------- Order record
Order(id, s, type, qty, px) ==
    [order_id |-> id, side |-> s, order_type |-> type, quantity |-> qty,
     price |-> px, status |-> "NEW", filled_quantity |-> 0]

is_filled(o) == o.filled_quantity = o.quantity

remaining_quantity(o) == o.quantity - o.filled_quantity

Min2(a, b) == IF a <= b THEN a ELSE b

SetMin(S) == CHOOSE x \in S : \A y \in S : x <= y
SetMax(S) == CHOOSE x \in S : \A y \in S : x >= y

\* ------------------------------------------------------------- PriceLevel
PriceLevel == [orders_ |-> <<>>, total_quantity_ |-> 0]

RemoveAt(s, i) == [j \in 1..(Len(s) - 1) |-> IF j < i THEN s[j] ELSE s[j + 1]]

\* mutant: a new order jumps the queue of its level
PriceLevel_add_order_front(lvl, h, rs) ==
    [orders_ |-> <<h>> \o lvl.orders_,
     total_quantity_ |-> lvl.total_quantity_ + rs[h].quantity]

PriceLevel_add_order(lvl, h, rs) ==
    [orders_ |-> Append(lvl.orders_, h),
     total_quantity_ |-> lvl.total_quantity_ + rs[h].quantity]

PriceLevel_remove_order(lvl, order_id, rs) ==
    LET hits == {i \in 1..Len(lvl.orders_) : rs[lvl.orders_[i]].order_id = order_id}
    IN IF hits = {} THEN lvl
       ELSE LET i == SetMin(hits)
            IN [orders_ |-> RemoveAt(lvl.orders_, i),
                total_quantity_ |-> lvl.total_quantity_ - rs[lvl.orders_[i]].quantity]

RECURSIVE first_live(_, _, _)
first_live(os, rs, i) ==
    IF i > Len(os) THEN NULL
    ELSE IF rs[os[i]].status # "FILLED" /\ rs[os[i]].status # "CANCELLED" THEN os[i]
    ELSE first_live(os, rs, i + 1)

\* mutant: the level serves its newest live order first (LIFO)
RECURSIVE last_live(_, _, _)
last_live(os, rs, i) ==
    IF i < 1 THEN NULL
    ELSE IF rs[os[i]].status # "FILLED" /\ rs[os[i]].status # "CANCELLED" THEN os[i]
    ELSE last_live(os, rs, i - 1)

get_best_order_lifo(lvl, rs) == last_live(lvl.orders_, rs, Len(lvl.orders_))

get_best_order(lvl, rs) == first_live(lvl.orders_, rs, 1)

get_total_quantity(lvl) == lvl.total_quantity_

is_empty(lvl) == lvl.total_quantity_ = 0

\* ------------------------------------------------- std::map over prices
map_begin(m) == IF DOMAIN m = {} THEN END ELSE SetMin(DOMAIN m)
map_last(m)  == SetMax(DOMAIN m)
map_next(m, k) ==
    LET up == {x \in DOMAIN m : x > k} IN IF up = {} THEN END ELSE SetMin(up)
map_prev(m, k) == SetMax({x \in DOMAIN m : x < k})
map_erase(m, k) == [x \in DOMAIN m \ {k} |-> m[x]]
map_put(m, k, v) == [x \in DOMAIN m \cup {k} |-> IF x = k THEN v ELSE m[x]]

\* ------------------------------------------------------ SimpleOrderBook
\* The book as one value, so that operations compose (modify = cancel; add).
Book ==
    [recs |-> recs, orders_ |-> orders_, bids_ |-> bids_, asks_ |-> asks_,
     next_trade_id_ |-> next_trade_id_, total_volume_ |-> total_volume_,
     trade_count_ |-> trade_count_, events |-> events]

opposite_of(b, h) == IF b.recs[h].side = "BUY" THEN b.asks_ ELSE b.bids_
with_opposite(b, h, m) ==
    IF b.recs[h].side = "BUY" THEN [b EXCEPT !.asks_ = m] ELSE [b EXCEPT !.bids_ = m]

get_market_data(b) ==
    [best_bid_price    |-> IF DOMAIN b.bids_ = {} THEN 0 ELSE map_last(b.bids_),
     best_bid_quantity |-> IF DOMAIN b.bids_ = {} THEN 0
                           ELSE get_total_quantity(b.bids_[map_last(b.bids_)]),
     best_ask_price    |-> IF DOMAIN b.asks_ = {} THEN 0 ELSE map_begin(b.asks_),
     best_ask_quantity |-> IF DOMAIN b.asks_ = {} THEN 0
                           ELSE get_total_quantity(b.asks_[map_begin(b.asks_)]),
     volume            |-> b.total_volume_]

\* std::map reverse iteration: rbegin() and ++ on a reverse iterator, END
\* standing for rend()
map_rbegin(m) == IF DOMAIN m = {} THEN END ELSE SetMax(DOMAIN m)
map_rnext(m, k) ==
    LET down == {x \in DOMAIN m : x < k} IN IF down = {} THEN END ELSE SetMax(down)

\* the for loop of get_bid_levels: i counts the pairs taken, `it` walks down
RECURSIVE bid_levels_loop(_, _, _, _, _)
bid_levels_loop(b, depth, i, it, levels) ==
    IF i < depth /\ it # END
    THEN bid_levels_loop(b, depth, i + 1, map_rnext(b.bids_, it),
                         Append(levels, <<it, get_total_quantity(b.bids_[it])>>))
    ELSE levels

\* mutant: the bid ladder is walked from its lowest price up
get_bid_levels_ascending(b, depth) ==
    LET RECURSIVE up(_, _, _)
        up(i, it, levels) ==
            IF i < depth /\ it # END
            THEN up(i + 1, map_next(b.bids_, it),
                    Append(levels, <<it, get_total_quantity(b.bids_[it])>>))
            ELSE levels
    IN up(0, map_begin(b.bids_), <<>>)

get_bid_levels(b, depth) == bid_levels_loop(b, depth, 0, map_rbegin(b.bids_), <<>>)

\* the for loop of get_ask_levels: `it` walks up
RECURSIVE ask_levels_loop(_, _, _, _, _)
ask_levels_loop(b, depth, i, it, levels) ==
    IF i < depth /\ it # END
    THEN ask_levels_loop(b, depth, i + 1, map_next(b.asks_, it),
                         Append(levels, <<it, get_total_quantity(b.asks_[it])>>))
    ELSE levels

get_ask_levels(b, depth) == ask_levels_loop(b, depth, 0, map_begin(b.asks_), <<>>)

notify_market_data(b) ==
    [b EXCEPT !.events = Append(@, [kind |-> "md", snapshot |-> get_market_data(b)])]

notify_trade(b, trade) == [b EXCEPT !.events = Append(@, trade)]

\* What an observer of the book sees at the moment order1 trades with order2:
\* the live orders (neither FILLED nor CANCELLED) with remaining quantity that
\* are queued ahead of order2 in its level, and the opposite levels priced
\* better for order1 that still hold such an order.
LiveRemaining(lvl, rs) ==
    {i \in 1..Len(lvl.orders_) :
        /\ rs[lvl.orders_[i]].status \notin {"FILLED", "CANCELLED"}
        /\ remaining_quantity(rs[lvl.orders_[i]]) > 0}

observe(b, order1, order2) ==
    LET opp == opposite_of(b, order1)
        p   == b.recs[order2].price
        lvl == IF p \in DOMAIN opp THEN opp[p] ELSE PriceLevel
        pos == {i \in 1..Len(lvl.orders_) : lvl.orders_[i] = order2}
    IN [ahead  |-> {lvl.orders_[i] : i \in {j \in LiveRemaining(lvl, b.recs) :
                                             \A k \in pos : j < k}},
        better |-> {x \in DOMAIN opp :
                      /\ IF b.recs[order1].side = "BUY" THEN x < p ELSE x > p
                      /\ LiveRemaining(opp[x], b.recs) # {}}]

trade_price(buy_order, sell_order) == sell_order.price

\* mutant: the trade is made but the book's statistics are not updated
execute_trade_skips_stats(b, order1, order2, quantity) ==
    LET o1 == b.recs[order1]
        o2 == b.recs[order2]
        buy_order  == IF o1.side = "BUY" THEN o1 ELSE o2
        sell_order == IF o1.side = "SELL" THEN o1 ELSE o2
        seen  == observe(b, order1, order2)
        trade == [kind |-> "trade", trade_id |-> b.next_trade_id_,
                  buy_order_id |-> buy_order.order_id,
                  sell_order_id |-> sell_order.order_id,
                  quantity |-> quantity, price |-> trade_price(buy_order, sell_order),
                  aggressor |-> order1, resting |-> order2,
                  ahead |-> seen.ahead, better |-> seen.better]
        b1 == [b EXCEPT !.next_trade_id_ = @ + 1,
                        !.recs[order1].filled_quantity = @ + quantity,
                        !.recs[order2].filled_quantity = @ + quantity]
    IN notify_trade(b1, trade)

\* mutant: every trade is counted with twice its quantity in total_volume_
execute_trade_volume_doubled(b, order1, order2, quantity) ==
    [execute_trade_skips_stats(b, order1, order2, quantity)
        EXCEPT !.total_volume_ = @ + 2 * quantity, !.trade_count_ = @ + 1]

execute_trade(b, order1, order2, quantity) ==
    LET o1 == b.recs[order1]
        o2 == b.recs[order2]
        buy_order  == IF o1.side = "BUY" THEN o1 ELSE o2
        sell_order == IF o1.side = "SELL" THEN o1 ELSE o2
        seen  == observe(b, order1, order2)
        trade == [kind |-> "trade", trade_id |-> b.next_trade_id_,
                  buy_order_id |-> buy_order.order_id,
                  sell_order_id |-> sell_order.order_id,
                  quantity |-> quantity, price |-> trade_price(buy_order, sell_order),
                  aggressor |-> order1, resting |-> order2,
                  ahead |-> seen.ahead, better |-> seen.better]
        b1 == [b EXCEPT !.next_trade_id_ = @ + 1,
                        !.recs[order1].filled_quantity = @ + quantity,
                        !.recs[order2].filled_quantity = @ + quantity,
                        !.total_volume_ = @ + quantity,
                        !.trade_count_ = @ + 1]
    IN notify_trade(b1, trade)

price_acceptable(o, price) ==
    IF o.side = "BUY" THEN price <= o.price ELSE price >= o.price

\* mutant: matching starts at the wrong end of the opposite ladder
match_start_worst(o, opposite_side) ==
    IF o.side = "BUY" THEN map_last(opposite_side) ELSE map_begin(opposite_side)

match_start(o, opposite_side) ==
    IF o.side = "BUY" THEN map_begin(opposite_side) ELSE map_last(opposite_side)

\* the inner while loop of try_match_order: one price level.  match_level is
\* the loop test, match_order the body up to execute_trade, after_trade the
\* removal of a filled resting order and the jump back to the loop test.
RECURSIVE match_level(_, _, _)
RECURSIVE match_order(_, _, _, _)
RECURSIVE after_trade(_, _, _, _)
after_trade(b1, h, p, matching_order) ==
    IF is_filled(b1.recs[matching_order])
    THEN match_level(
             [with_opposite(b1, h,
                 map_put(opposite_of(b1, h), p,
                     PriceLevel_remove_order(opposite_of(b1, h)[p],
                         b1.recs[matching_order].order_id, b1.recs)))
              EXCEPT !.recs[matching_order].status = "FILLED"], h, p)
    ELSE match_level(b1, h, p)

\* mutant: the trade takes all the incoming order still wants
match_order_whole_remainder(b, h, p, matching_order) ==
    IF matching_order = NULL THEN b
    ELSE after_trade(
             execute_trade(b, h, matching_order, remaining_quantity(b.recs[h])),
             h, p, matching_order)

match_order(b, h, p, matching_order) ==
    IF matching_order = NULL THEN b
    ELSE after_trade(
             execute_trade(b, h, matching_order,
                 Min2(remaining_quantity(b.recs[h]),
                      remaining_quantity(b.recs[matching_order]))),
             h, p, matching_order)

match_level(b, h, p) ==
    IF remaining_quantity(b.recs[h]) > 0
    THEN match_order(b, h, p, get_best_order(opposite_of(b, h)[p], b.recs))
    ELSE b

\* the outer while loop of try_match_order: `it` walks the opposite ladder.
\* match_loop is the loop test and the price check, after_level the code that
\* follows the inner loop (erase of an emptied level, ++it, --it).
RECURSIVE match_loop(_, _, _)
RECURSIVE after_level(_, _, _)
after_level(b1, h, it) ==
    LET opp1 == opposite_of(b1, h)
    IN IF is_empty(opp1[it])
       THEN LET opp2 == map_erase(opp1, it)
                b2   == with_opposite(b1, h, opp2)
            IN IF DOMAIN opp2 = {} THEN b2
               ELSE match_loop(b2, h, map_next(opp1, it))
       ELSE IF b1.recs[h].side = "BUY"
            THEN match_loop(b1, h, map_next(opp1, it))
            ELSE IF it = map_begin(opp1) THEN b1
                 ELSE match_loop(b1, h, map_prev(opp1, it))

match_loop(b, h, it) ==
    IF it = END \/ ~(remaining_quantity(b.recs[h]) > 0) THEN b
    ELSE IF ~price_acceptable(b.recs[h], it) THEN b
    ELSE after_level(match_level(b, h, it), h, it)

\* the return statement of try_match_order
match_result(b1, h) == [b |-> b1, ret |-> b1.recs[h].filled_quantity > 0]

try_match_order(b, h) ==
    IF DOMAIN opposite_of(b, h) = {} THEN [b |-> b, ret |-> FALSE]
    ELSE match_result(match_loop(b, h, match_start(b.recs[h], opposite_of(b, h))), h)

add_to_book(b, h) ==
    LET o     == b.recs[h]
        side  == IF o.side = "BUY" THEN b.bids_ ELSE b.asks_
        lvl   == IF o.price \in DOMAIN side THEN side[o.price] ELSE PriceLevel
        side2 == map_put(side, o.price, PriceLevel_add_order(lvl, h, b.recs))
    IN IF o.side = "BUY" THEN [b EXCEPT !.bids_ = side2] ELSE [b EXCEPT !.asks_ = side2]

\* mutant: the remainder of a partly matched LIMIT order is not queued
limit_order_status_drops_remainder(m, h) ==
    IF m.ret
    THEN IF is_filled(m.b.recs[h])
         THEN [m.b EXCEPT !.recs[h].status = "FILLED"]
         ELSE [m.b EXCEPT !.recs[h].status = "PARTIALLY_FILLED"]
    ELSE add_to_book([m.b EXCEPT !.recs[h].status = "NEW"], h)

\* the branches of process_limit_order on the result m of try_match_order
limit_order_status(m, h) ==
    IF m.ret
    THEN IF is_filled(m.b.recs[h])
         THEN [m.b EXCEPT !.recs[h].status = "FILLED"]
         ELSE add_to_book([m.b EXCEPT !.recs[h].status = "PARTIALLY_FILLED"], h)
    ELSE add_to_book([m.b EXCEPT !.recs[h].status = "NEW"], h)

process_limit_order(b, h) == limit_order_status(try_match_order(b, h), h)

\* mutant: the remainder of a partly matched MARKET order rests in the book
market_order_rests(m, h) ==
    IF m.ret
    THEN IF is_filled(m.b.recs[h])
         THEN [m.b EXCEPT !.recs[h].status = "FILLED"]
         ELSE add_to_book([m.b EXCEPT !.recs[h].status = "PARTIALLY_FILLED"], h)
    ELSE [m.b EXCEPT !.recs[h].status = "REJECTED"]

\* the branches of process_market_order on the result m of try_match_order
market_order_status(m, h) ==
    IF m.ret
    THEN IF is_filled(m.b.recs[h])
         THEN [m.b EXCEPT !.recs[h].status = "FILLED"]
         ELSE [m.b EXCEPT !.recs[h].status = "PARTIALLY_FILLED"]
    ELSE [m.b EXCEPT !.recs[h].status = "REJECTED"]

process_market_order(b, h) == market_order_status(try_match_order(b, h), h)

\* add_order(order): `order` is a freshly constructed record; returns
\* the book after the call, the handle of the record and the return value
store_order(b, order) ==
    [b EXCEPT !.recs = Append(@, order),
              !.orders_ = map_put(@, order.order_id, Len(b.recs) + 1)]

\* the switch of add_order on the order type
process_order(b, h) ==
    IF b.recs[h].order_type = "MARKET" THEN process_market_order(b, h)
    ELSE process_limit_order(b, h)

add_order(b, order) ==
    [b   |-> notify_market_data(process_order(store_order(b, order), Len(b.recs) + 1)),
     h   |-> Len(b.recs) + 1,
     ret |-> TRUE]

own_side(b, o) == IF o.side = "BUY" THEN b.bids_ ELSE b.asks_
with_own_side(b, o, m) ==
    IF o.side = "BUY" THEN [b EXCEPT !.bids_ = m] ELSE [b EXCEPT !.asks_ = m]

\* the block of cancel_order that takes the order out of its level
remove_from_book(b, o) ==
    LET side == own_side(b, o)
    IN IF o.price \in DOMAIN side
       THEN LET lvl == PriceLevel_remove_order(side[o.price], o.order_id, b.recs)
            IN IF is_empty(lvl) THEN with_own_side(b, o, map_erase(side, o.price))
               ELSE with_own_side(b, o, map_put(side, o.price, lvl))
       ELSE b

\* mutant: only a FILLED order is refused
cancel_refused_filled_only(o) == o.status = "FILLED"

cancel_refused(o) == o.status = "FILLED" \/ o.status = "CANCELLED"

cancel_order(b, order_id) ==
    IF order_id \notin DOMAIN b.orders_ THEN [b |-> b, ret |-> FALSE]
    ELSE LET h == b.orders_[order_id]
             o == b.recs[h]
         IN IF cancel_refused(o) THEN [b |-> b, ret |-> FALSE]
            ELSE LET b1 == IF o.filled_quantity < o.quantity
                           THEN remove_from_book(b, o) ELSE b
                     b2 == [b1 EXCEPT !.recs[h].status = "CANCELLED"]
                 IN [b |-> notify_market_data(b2), ret |-> TRUE]

\* the two early returns of modify_order
modify_refused(b, order_id) ==
    \/ order_id \notin DOMAIN b.orders_
    \/ b.recs[b.orders_[order_id]].status = "FILLED"
    \/ b.recs[b.orders_[order_id]].status = "CANCELLED"

modify_order(b, order_id, new_quantity, new_price) ==
    IF modify_refused(b, order_id) THEN [b |-> b, h |-> NULL, ret |-> FALSE]
    ELSE LET o  == b.recs[b.orders_[order_id]]
             b1 == cancel_order(b, order_id).b
             new_order == Order(order_id, o.side, o.order_type, new_quantity,
                                IF new_price > 0 THEN new_price ELSE o.price)
         IN add_order(b1, new_order)

\* ---------------------------------------------------------------- actions
Install(b) ==
    /\ recs' = b.recs
    /\ orders_' = b.orders_
    /\ bids_' = b.bids_
    /\ asks_' = b.asks_
    /\ next_trade_id_' = b.next_trade_id_
    /\ total_volume_' = b.total_volume_
    /\ trade_count_' = b.trade_count_
    /\ events' = b.events

Fresh == [Book EXCEPT !.events = <<>>]

\* the empty book of the SimpleOrderBook constructor
EmptyBook ==
    /\ recs = <<>>
    /\ orders_ = <<>>
    /\ bids_ = <<>>
    /\ asks_ = <<>>
    /\ next_trade_id_ = 1
    /\ total_volume_ = 0
    /\ trade_count_ = 0
    /\ events = <<>>

\* no OrderBookSimulator is in play
EngineUnused ==
    /\ order_books_ = <<>>
    /\ orders_processed_ = 0
    /\ task_queue_ = <<>>
    /\ shutdown_ = FALSE
    /\ worker_threads_ = <<>>
    /\ allocated = <<>>
    /\ returned = <<>>
    /\ registered = <<>>
    /\ invoked = {}

Init ==
    /\ recs = <<>>
    /\ orders_ = <<>>
    /\ bids_ = <<>>
    /\ asks_ = <<>>
    /\ next_trade_id_ = 1
    /\ total_volume_ = 0
    /\ trade_count_ = 0
    /\ next_order_id_ = 1
    /\ events = <<>>
    /\ EngineUnused
    /\ frame = <<>>
    /\ lastOp = [op |-> "none", id |-> 0, h |-> NULL, ret |-> FALSE,
                 new_quantity |-> 0, new_price |-> 0]

AddOrder ==
    /\ next_order_id_ <= MaxOrders
    /\ Len(recs) < MaxRecs
    /\ \E s \in Sides, in \in OrderInputs :
          \E r \in {add_order(Fresh, Order(next_order_id_, s, in[1], in[2], in[3]))} :
             /\ Install(r.b)
             /\ lastOp' = [op |-> "add", id |-> next_order_id_, h |-> r.h, ret |-> r.ret,
                          new_quantity |-> 0, new_price |-> 0]
    /\ next_order_id_' = next_order_id_ + 1
    /\ UNCHANGED <<frame, engineVars>>

\* ids a caller passes to cancel and modify: every id handed out so far and
\* one that was never handed out
KnownIds == 1..next_order_id_

\* lastOp names the id of an operation that took effect (and the arguments
\* new_quantity, new_price of a modify); a refused cancel or
\* modify leaves the book as it was and is recorded by its kind alone
Refused(op) ==
    [op |-> op, id |-> 0, h |-> NULL, ret |-> FALSE, new_quantity |-> 0, new_price |-> 0]

CancelOrder ==
    /\ \E id \in KnownIds :
          \E r \in {cancel_order(Fresh, id)} :
             /\ Install(r.b)
             /\ lastOp' = IF r.ret
                          THEN [op |-> "cancel", id |-> id, h |-> orders_[id], ret |-> TRUE,
                                new_quantity |-> 0, new_price |-> 0]
                          ELSE Refused("cancel")
    /\ UNCHANGED <<next_order_id_, frame, engineVars>>

ModifyOrder ==
    /\ \E id \in KnownIds :
          IF modify_refused(Fresh, id)
          THEN /\ Install(modify_order(Fresh, id, 1, 0).b)
               /\ lastOp' = Refused("modify")
          ELSE /\ Len(recs) < MaxRecs
               /\ \E new_quantity \in Quantities, new_price \in 0..MaxPrice :
                     \E r \in {modify_order(Fresh, id, new_quantity, new_price)} :
                        /\ Install(r.b)
                        /\ lastOp' = [op |-> "modify", id |-> id, h |-> r.h, ret |-> r.ret,
                                   new_quantity |-> new_quantity,
                                   new_price |-> new_price]
    /\ UNCHANGED <<next_order_id_, frame, engineVars>>

Next == AddOrder \/ CancelOrder \/ ModifyOrder

Spec == Init /\ [][Next]_vars

\* ------------------------------------------------------- claim vocabulary
Handles == 1..Len(recs)

TradeEvents == {i \in 1..Len(events) : events[i].kind = "trade"}

\* every order ever submitted was a LIMIT order of positive quantity
OnlyPositiveLimits ==
    \A h \in Handles : recs[h].order_type = "LIMIT" /\ recs[h].quantity > 0

AllPositive == \A h \in Handles : recs[h].quantity > 0

Levels == {bids_[p] : p \in DOMAIN bids_} \cup {asks_[p] : p \in DOMAIN asks_}

RestingHandles == UNION {{lvl.orders_[i] : i \in 1..Len(lvl.orders_)} : lvl \in Levels}

RECURSIVE SumRemaining(_, _)
SumRemaining(os, rs) ==
    IF os = <<>> THEN 0
    ELSE remaining_quantity(rs[Head(os)]) + SumRemaining(Tail(os), rs)

LastAdded == recs[lastOp.h]

\* C1: after any completed operation on a book that only ever received LIMIT
\* orders of positive quantity, if both ladders are non-empty the highest bid
\* price is strictly below the lowest ask price.
C1_NoCrossedBook ==
    (OnlyPositiveLimits /\ DOMAIN bids_ # {} /\ DOMAIN asks_ # {})
        => SetMax(DOMAIN bids_) < SetMin(DOMAIN asks_)

\* C2: a MARKET order of positive quantity (price 0) matches the opposite side
\* whatever its prices until it is fully filled or the opposite side is empty.
C2_MarketOrderSweeps ==
    (/\ lastOp.op = "add"
     /\ AllPositive
     /\ LastAdded.order_type = "MARKET"
     /\ LastAdded.price = 0)
        => \/ (is_filled(LastAdded) /\ LastAdded.status = "FILLED")
           \/ DOMAIN (IF LastAdded.side = "BUY" THEN asks_ ELSE bids_) = {}

\* C3: every trade carries the price of the resting order it was made against.
C3_TradeAtRestingPrice ==
    AllPositive =>
        \A i \in TradeEvents : events[i].price = recs[events[i].resting].price

\* C4: each level's total_quantity equals the sum of quantity - filled_quantity
\* over the orders resting in it.
C4_LevelTotalIsSumOfRemaining ==
    AllPositive =>
        \A lvl \in Levels : get_total_quantity(lvl) = SumRemaining(lvl.orders_, recs)

\* C5: a resting order that a trade filled only partly is PARTIALLY_FILLED,
\* stays in its level, and the fully filled incoming order is FILLED.
C5_PartlyFilledRestingStatus ==
    \A i \in TradeEvents :
        LET m == events[i].resting
            o == events[i].aggressor
        IN (AllPositive /\ ~is_filled(recs[m]))
              => /\ recs[m].status = "PARTIALLY_FILLED"
                 /\ m \in RestingHandles
                 /\ (is_filled(recs[o]) => recs[o].status = "FILLED")

\* the ladders hold exactly one order, r
SoleResting(r) ==
    LET p == recs[r].price
    IN \/ /\ recs[r].side = "BUY"
          /\ DOMAIN asks_ = {}
          /\ DOMAIN bids_ = {p}
          /\ bids_[p].orders_ = <<r>>
       \/ /\ recs[r].side = "SELL"
          /\ DOMAIN bids_ = {}
          /\ DOMAIN asks_ = {p}
          /\ asks_[p].orders_ = <<r>>

Snapshot == get_market_data(Book)

C6_Step ==
    \A r \in Handles :
        LET o == recs'[lastOp'.h]
            q == remaining_quantity(recs[r])
        IN (/\ lastOp'.op = "add"
            /\ SoleResting(r)
            /\ recs[r].status \in {"NEW", "PARTIALLY_FILLED"}
            /\ o.order_type = "LIMIT"
            /\ o.side # recs[r].side
            /\ o.price = recs[r].price
            /\ o.quantity = q
            /\ q > 0)
              => /\ Len(events') = 2
                 /\ events'[1].kind = "trade"
                 /\ events'[1].quantity = q
                 /\ events'[1].price = recs[r].price
                 /\ events'[1].buy_order_id =
                       (IF o.side = "BUY" THEN o.order_id ELSE recs[r].order_id)
                 /\ events'[1].sell_order_id =
                       (IF o.side = "SELL" THEN o.order_id ELSE recs[r].order_id)
                 /\ events'[2].kind = "md"
                 /\ o.status = "FILLED"
                 /\ recs'[r].status = "FILLED"
                 /\ trade_count_' = trade_count_ + 1
                 /\ total_volume_' = total_volume_ + q
                 /\ DOMAIN bids_' = {}
                 /\ DOMAIN asks_' = {}
                 /\ Snapshot'.best_bid_price = 0
                 /\ Snapshot'.best_ask_price = 0

\* C6: a LIMIT order that crosses the sole resting opposite order at the same
\* price with the same (remaining) quantity q > 0 yields exactly one trade of
\* quantity q with the right buy and sell ids, leaves both orders FILLED, adds 1
\* to trade_count and q to total_volume, and empties both ladders, so that the
\* snapshot reports best bid and best ask price 0.
C6_ImmediateFullMatch == [][C6_Step]_vars

C6_Witness ==
    /\ lastOp.op = "add"
    /\ LastAdded.order_type = "LIMIT"
    /\ LastAdded.status = "FILLED"
    /\ LastAdded.quantity > 0
    /\ Len(events) = 2
    /\ events[1].kind = "trade"
    /\ events[1].quantity = LastAdded.quantity
    /\ recs[events[1].resting].price = LastAdded.price
    /\ recs[events[1].resting].status = "FILLED"
    /\ DOMAIN bids_ = {}
    /\ DOMAIN asks_ = {}

EarliestLive(lvl) ==
    LET live == {i \in 1..Len(lvl.orders_) :
                    recs[lvl.orders_[i]].status \notin {"FILLED", "CANCELLED"}}
    IN IF live = {} THEN NULL ELSE lvl.orders_[SetMin(live)]

\* C7: within a level fills follow insertion order: no trade is made against an
\* order while an order queued ahead of it in the same level has remaining
\* quantity, and get_best_order is the earliest-inserted order of the level
\* whose status is neither FILLED nor CANCELLED.
C7_FifoWithinLevel ==
    /\ \A i \in TradeEvents : events[i].ahead = {}
    /\ \A lvl \in Levels : get_best_order(lvl, recs) = EarliestLive(lvl)

\* one incoming order traded with two orders of the same level, one after the other
C7_Witness ==
    \E i, j \in TradeEvents :
        /\ i < j
        /\ events[i].resting # events[j].resting
        /\ events[i].resting < events[j].resting
        /\ recs[events[i].resting].price = recs[events[j].resting].price
        /\ events[i].quantity > 0
        /\ events[j].quantity > 0

\* C8: an incoming order trades with the opposite levels best price first: no
\* trade is made at a level while a better-priced opposite level holds remaining
\* quantity, and the prices of its trades' resting orders never improve.
C8_BestPriceFirst ==
    /\ \A i \in TradeEvents : events[i].better = {}
    /\ \A i, j \in TradeEvents :
          i < j =>
            IF recs[events[i].aggressor].side = "BUY"
            THEN recs[events[i].resting].price <= recs[events[j].resting].price
            ELSE recs[events[i].resting].price >= recs[events[j].resting].price

\* one incoming order traded at two price levels
C8_Witness ==
    \E i, j \in TradeEvents :
        /\ i < j
        /\ recs[events[i].resting].price # recs[events[j].resting].price
        /\ events[i].quantity > 0
        /\ events[j].quantity > 0

\* C9: add of an order with quantity 0 sets its status to REJECTED, emits no
\* trade and does not insert the order into a price level.
C9_ZeroQuantityRejected ==
    (lastOp.op = "add" /\ LastAdded.quantity = 0)
        => /\ LastAdded.status = "REJECTED"
           /\ TradeEvents = {}
           /\ lastOp.h \notin RestingHandles

CancelRefusedFor(id) ==
    \/ id \notin DOMAIN orders_
    \/ recs[orders_[id]].status \in {"FILLED", "CANCELLED"}

C10_Step ==
    /\ lastOp' = Refused("cancel")
          => /\ UNCHANGED <<recs, orders_, bids_, asks_, next_trade_id_,
                            total_volume_, trade_count_>>
             /\ events' = <<>>
    /\ (lastOp'.op = "cancel" /\ lastOp'.ret) => ~CancelRefusedFor(lastOp'.id)
    /\ (lastOp.op = "cancel" /\ lastOp.ret /\ lastOp'.op = "cancel" /\ lastOp'.ret)
          => lastOp'.id # lastOp.id

\* C10: cancel returns false for an id the book does not know and for an order
\* whose status is CANCELLED or FILLED, and then changes nothing (ladders, index,
\* records, counters; no callback fires); a cancel that follows a cancel of the
\* same id returns false.
C10_CancelRefused == [][C10_Step]_vars

\* a cancel was refused in a book that holds a CANCELLED and a FILLED order
C10_Witness ==
    /\ lastOp = Refused("cancel")
    /\ \E h \in Handles : recs[h].status = "CANCELLED" /\ orders_[recs[h].order_id] = h
    /\ \E h \in Handles : recs[h].status = "FILLED" /\ orders_[recs[h].order_id] = h

\* the handles of the levels of one ladder, level by level: price -> queue
Queues(m) == [p \in DOMAIN m |-> m[p].orders_]

Without(q, h) == SelectSeq(q, LAMBDA x : x # h)

\* a ladder's queues once h has left its level, a level left without orders gone
QueuesWithout(m, h) ==
    LET left == {p \in DOMAIN m : Without(m[p].orders_, h) # <<>>}
    IN [p \in left |-> Without(m[p].orders_, h)]

\* the order the index holds for id rests in a level with status NEW or
\* PARTIALLY_FILLED
RestingLive(id) ==
    /\ id \in DOMAIN orders_
    /\ orders_[id] \in RestingHandles
    /\ recs[orders_[id]].status \in {"NEW", "PARTIALLY_FILLED"}

C11_Step ==
    /\ \A id \in DOMAIN orders_ : RestingLive(id) => cancel_order(Fresh, id).ret
    /\ (lastOp'.op = "cancel" /\ lastOp'.ret /\ RestingLive(lastOp'.id))
          => /\ recs'[lastOp'.h].status = "CANCELLED"
             /\ \A h \in Handles \ {lastOp'.h} : recs'[h] = recs[h]
             /\ Len(recs') = Len(recs)
             /\ Queues(bids_') = QueuesWithout(bids_, lastOp'.h)
             /\ Queues(asks_') = QueuesWithout(asks_, lastOp'.h)
             /\ total_volume_' = total_volume_
             /\ trade_count_' = trade_count_

\* C11: cancel of a resting order (status NEW or PARTIALLY_FILLED) returns true,
\* sets its status to CANCELLED, takes exactly that order out of its level,
\* drops the level when no order is left in it, and leaves every other resting
\* order, the queue positions, total_volume and trade_count as they were.
C11_CancelResting == [][C11_Step]_vars

\* the same, for books that never received an order of quantity 0
C11_CancelRestingPositive == [][AllPositive' => C11_Step]_vars

Terminal == {"FILLED", "CANCELLED", "REJECTED"}

C12_Step ==
    /\ lastOp' = Refused("modify") => UNCHANGED <<recs, orders_, bids_, asks_>>
    /\ (AllPositive' /\ lastOp'.op = "modify" /\ lastOp'.ret)
          => recs[orders_[lastOp'.id]].status \notin Terminal

\* C12: modify of an order whose status is terminal (FILLED, CANCELLED or
\* REJECTED) returns false and changes neither the order records, the index nor
\* the ladders: no modify of such an order returns true (be all quantities
\* positive), and a modify that returns false leaves all of them as they were.
C12_ModifyTerminalRefused == [][C12_Step]_vars

RestingHandlesOf(b) ==
    UNION {{b.bids_[p].orders_[i] : i \in 1..Len(b.bids_[p].orders_)} : p \in DOMAIN b.bids_}
      \cup UNION {{b.asks_[p].orders_[i] : i \in 1..Len(b.asks_[p].orders_)} : p \in DOMAIN b.asks_}

\* the book a fresh arrival `order` makes of the book left by cancel(id)
ArrivalAfterCancel(id, order) == add_order(cancel_order(Fresh, id).b, order).b

C13_Step ==
    (lastOp'.op = "modify" /\ lastOp'.ret)
        => LET old == orders_[lastOp'.id]
               new == lastOp'.h
               replacement ==
                   Order(lastOp'.id, recs[old].side, recs[old].order_type,
                         lastOp'.new_quantity,
                         IF lastOp'.new_price # 0 THEN lastOp'.new_price
                         ELSE recs[old].price)
           IN /\ recs'[old].status = "CANCELLED"
              /\ old \notin RestingHandlesOf(Book')
              /\ new = Len(recs) + 1
              /\ Len(recs') = Len(recs) + 1
              /\ orders_'[lastOp'.id] = new
              /\ recs'[new].order_id = replacement.order_id
              /\ recs'[new].side = replacement.side
              /\ recs'[new].order_type = replacement.order_type
              /\ recs'[new].quantity = replacement.quantity
              /\ recs'[new].price = replacement.price
              /\ Book' = ArrivalAfterCancel(lastOp'.id, replacement)

\* C13: a successful modify(order_id, new_quantity, new_price) leaves the old
\* record CANCELLED and out of every level, and submits a replacement with the
\* same id, side and type, quantity new_quantity, and price new_price when that
\* is nonzero, else the old price; the index maps the id to the replacement,
\* and the book is the one a fresh arrival of the replacement makes.
C13_ModifyReplaces == [][C13_Step]_vars

\* the same, for books that never received an order of quantity 0
C13_ModifyReplacesPositive == [][AllPositive => C13_Step]_vars

Elems(q) == {q[i] : i \in 1..Len(q)}

Front(q) == SubSeq(q, 1, Len(q) - 1)

\* the ladder of the side of record h
OwnLadder(h) == IF recs[h].side = "BUY" THEN bids_ ELSE asks_

C14_Step ==
    LET old == orders_[lastOp'.id]
        new == lastOp'.h
        p   == recs[old].price
    IN (/\ lastOp'.op = "modify"
        /\ lastOp'.ret
        /\ old \in RestingHandles
        /\ new \in RestingHandlesOf(Book')
        /\ recs'[new].price = p)
          => LET before == OwnLadder(old)[p].orders_
                 after  == (IF recs[old].side = "BUY" THEN bids_' ELSE asks_')[p].orders_
             IN /\ after[Len(after)] = new
                /\ Elems(Front(after)) \subseteq Elems(before)
                /\ Front(after) = SelectSeq(before, LAMBDA x : x \in Elems(Front(after)))

\* C14: after a successful modify of a resting order that leaves it resting at
\* the same price, the replacement is the last order of its level, behind every
\* order of that level that was there before the modify, whose relative order
\* is unchanged (so that, fills being FIFO, they are filled before it).
C14_ModifyLosesPriority == [][C14_Step]_vars

\* a modify sent the head of a two-order level to the tail of that level
C14_Witness ==
    /\ lastOp.op = "modify"
    /\ lastOp.ret
    /\ lastOp.h \in RestingHandles
    /\ LET q == OwnLadder(lastOp.h)[recs[lastOp.h].price].orders_
       IN /\ Len(q) = 2
          /\ q[2] = lastOp.h
          /\ recs[q[1]].order_id > lastOp.id
          /\ recs[q[1]].status = "NEW"
          /\ remaining_quantity(recs[q[1]]) > 0
          /\ recs[lastOp.h].quantity > 0

\* C15: a MARKET order is never in a price level; after its add (or its
\* re-submission by modify) its status is FILLED if it was matched in full,
\* PARTIALLY_FILLED if matched in part, REJECTED if nothing of it was matched;
\* and no trade is ever made against a MARKET order as the resting party.
C15_MarketNeverRests ==
    /\ \A h \in RestingHandles : recs[h].order_type # "MARKET"
    /\ \A i \in TradeEvents : recs[events[i].resting].order_type # "MARKET"
    /\ (lastOp.op \in {"add", "modify"} /\ lastOp.ret /\ LastAdded.order_type = "MARKET")
          => LastAdded.status =
                IF LastAdded.filled_quantity = 0 THEN "REJECTED"
                ELSE IF LastAdded.filled_quantity = LastAdded.quantity THEN "FILLED"
                ELSE "PARTIALLY_FILLED"

\* a MARKET order was matched in part; its remainder is in no level
C15_Witness ==
    /\ lastOp.op = "add"
    /\ LastAdded.order_type = "MARKET"
    /\ LastAdded.status = "PARTIALLY_FILLED"
    /\ LastAdded.filled_quantity > 0
    /\ LastAdded.filled_quantity < LastAdded.quantity
    /\ lastOp.h \notin RestingHandles

Depths == 0..MaxDepth

\* what a depth query of a ladder m must return: the n = min(depth, number of
\* levels) best prices, best first (descending for bids, ascending for asks),
\* each with the total_quantity of its level
IsDepthView(levels, m, depth, descending) ==
    /\ Len(levels) = Min2(depth, Cardinality(DOMAIN m))
    /\ \A i \in 1..Len(levels) :
          /\ levels[i][1] \in DOMAIN m
          /\ levels[i][2] = m[levels[i][1]].total_quantity_
    /\ \A i \in 1..(Len(levels) - 1) :
          IF descending THEN levels[i][1] > levels[i + 1][1]
          ELSE levels[i][1] < levels[i + 1][1]
    /\ \A i \in 1..Len(levels) :
          \A x \in DOMAIN m \ {levels[j][1] : j \in 1..Len(levels)} :
              IF descending THEN x < levels[i][1] ELSE x > levels[i][1]

Threads == 1..NumThreads

\* <<side, order_type, quantity, price>> of the orders the threads add, and
\* <<new_quantity, new_price>> of their modifies
ConcInputs == Sides \X {"LIMIT"} \X {1} \X Prices

ConcModifyInputs == (1..MaxQty) \X {0, MaxPrice}

NoOrder == Order(0, "BUY", "LIMIT", 0, 0)

IdleFrame ==
    [pc |-> "idle", op |-> "none", stage |-> "none", id |-> 0, h |-> NULL,
     order |-> NoOrder, pending |-> <<>>, pre |-> <<>>]

\* book_mutex_ is held across steps by the threads that are inside
\* process_limit_order / process_market_order and have a trade to announce;
\* callbacks_mutex_ by the threads inside notify_market_data (notify_trade
\* takes and drops it within one step).  Each is the set of its holders.
book_mutex_ == {t \in DOMAIN frame : frame[t].pc = "notify_trade"}

callbacks_mutex_ == {t \in DOMAIN frame : frame[t].pc = "md_snapshot"}

\* what market-data queries can tell of the book: the prices of the levels of
\* each ladder with their total quantities, and the volume
LevelTotals(m) == [p \in DOMAIN m |-> get_total_quantity(m[p])]

View(b) == <<LevelTotals(b.bids_), LevelTotals(b.asks_), b.total_volume_>>

\* cancel_order returns: to modify_order, which goes on to add_order, or to
\* the caller
after_cancel(f) ==
    IF f.op = "modify" THEN [f EXCEPT !.pc = "add_store", !.stage = "add"]
    ELSE IdleFrame

\* add_order, lines 9-12: the order is put into the index
step_add_store(b, f) ==
    [b |-> store_order(b, f.order),
     f |-> [f EXCEPT !.pc = "process", !.stage = "add", !.h = Len(b.recs) + 1]]

\* the thread has matched its order under book_mutex_ (book b1, one "trade"
\* event per execute_trade); each of these trades calls notify_trade, which
\* waits for callbacks_mutex_ with book_mutex_ held.  fired is the sequence of
\* the trades whose callbacks have been called so far.
matched(b1, f, fired) ==
    [b |-> [b1 EXCEPT !.events = fired],
     f |-> [f EXCEPT !.pending = b1.events,
                     !.pc = IF Len(b1.events) > 0 THEN "notify_trade" ELSE "notify_md"]]

\* process_limit_order / process_market_order: takes book_mutex_ and matches
step_process(b, f) ==
    matched(process_order([b EXCEPT !.events = <<>>], f.h), f, b.events)

\* notify_trade: takes callbacks_mutex_, calls the trade callbacks with the
\* trade, drops it; after the last one the match returns and book_mutex_ is
\* dropped
step_notify_trade(b, f) ==
    [b |-> notify_trade(b, Head(f.pending)),
     f |-> [f EXCEPT !.pending = Tail(@),
                     !.pc = IF Len(f.pending) = 1 THEN "notify_md" ELSE "notify_trade"]]

\* notify_market_data, line 302: takes callbacks_mutex_
step_notify_md(b, f) == [b |-> b, f |-> [f EXCEPT !.pc = "md_snapshot"]]

\* notify_market_data, lines 304-308: get_market_data takes book_mutex_ for
\* the snapshot, the callbacks are called, callbacks_mutex_ is dropped and the
\* operation returns
step_md_snapshot(b, f) ==
    [b |-> b,
     f |-> IF f.op = "modify" /\ f.stage = "cancel" THEN after_cancel(f) ELSE IdleFrame]

\* cancel_order, lines 171-188: the lookup and the status test
step_cancel_find(b, f) ==
    IF f.id \notin DOMAIN b.orders_ THEN [b |-> b, f |-> after_cancel(f)]
    ELSE IF cancel_refused(b.recs[b.orders_[f.id]]) THEN [b |-> b, f |-> after_cancel(f)]
    ELSE [b |-> b,
          f |-> [f EXCEPT !.h = b.orders_[f.id],
                          !.pc = IF b.recs[b.orders_[f.id]].filled_quantity
                                      < b.recs[b.orders_[f.id]].quantity
                                 THEN "cancel_remove" ELSE "cancel_status"]]

\* cancel_order, lines 189-201: under book_mutex_
step_cancel_remove(b, f) ==
    [b |-> remove_from_book(b, b.recs[f.h]), f |-> [f EXCEPT !.pc = "cancel_status"]]

\* cancel_order, line 204
step_cancel_status(b, f) ==
    [b |-> [b EXCEPT !.recs[f.h].status = "CANCELLED"],
     f |-> [f EXCEPT !.pc = "notify_md"]]

\* modify_order, lines 211-225 and 231-233: the lookup, the status test and
\* the replacement made of the fields of the order found (f.order carries the
\* arguments new_quantity and new_price until then)
step_modify_find(b, f) ==
    IF modify_refused(b, f.id) THEN [b |-> b, f |-> IdleFrame]
    ELSE [b |-> b,
          f |-> [f EXCEPT !.pc = "cancel_find", !.stage = "cancel",
                          !.order = Order(f.id, b.recs[b.orders_[f.id]].side,
                                          b.recs[b.orders_[f.id]].order_type,
                                          f.order.quantity,
                                          IF f.order.price > 0 THEN f.order.price
                                          ELSE b.recs[b.orders_[f.id]].price)]]

\* get_market_data: one critical section of book_mutex_; the snapshot goes
\* to the caller
step_query(b, f) == [b |-> b, f |-> IdleFrame]

thread_step(b, f) ==
    CASE f.pc = "add_store"     -> step_add_store(b, f)
      [] f.pc = "process"       -> step_process(b, f)
      [] f.pc = "notify_trade"  -> step_notify_trade(b, f)
      [] f.pc = "notify_md"     -> step_notify_md(b, f)
      [] f.pc = "md_snapshot"   -> step_md_snapshot(b, f)
      [] f.pc = "cancel_find"   -> step_cancel_find(b, f)
      [] f.pc = "cancel_remove" -> step_cancel_remove(b, f)
      [] f.pc = "cancel_status" -> step_cancel_status(b, f)
      [] f.pc = "modify_find"   -> step_modify_find(b, f)
      [] f.pc = "query"         -> step_query(b, f)

\* mutant: process_limit_order / process_market_order match without book_mutex_
needs_book_mutex_not_for_match(pc) == pc \in {"cancel_remove", "md_snapshot", "query"}

\* mutant: notify_market_data reads the book without taking book_mutex_
needs_book_mutex_not_for_snapshot(pc) == pc \in {"process", "cancel_remove", "query"}

\* the locks a thread at pc has to take for its next step
needs_book_mutex(pc) == pc \in {"process", "cancel_remove", "md_snapshot", "query"}

needs_callbacks_mutex(pc) == pc \in {"notify_trade", "notify_md"}

CanStep(t) ==
    /\ frame[t].pc # "idle"
    /\ needs_book_mutex(frame[t].pc) => book_mutex_ = {}
    /\ needs_callbacks_mutex(frame[t].pc) => callbacks_mutex_ = {}

\* threads whose call has still to allocate an Order record
PendingStores == {t \in Threads : frame[t].op \in {"add", "modify"} /\ frame[t].stage # "add"}

RecordLeft == Len(recs) + Cardinality(PendingStores) < ConcMaxRecs

ConcInit ==
    /\ EmptyBook
    /\ next_order_id_ = 1
    /\ lastOp = Refused("none")
    /\ EngineUnused
    /\ frame = [t \in Threads |-> IdleFrame]

\* thread t enters the call described by f.  pre is kept for a call that
\* runs on its own: it is the view of the book at its start if no other call
\* is in progress then, and is dropped as soon as another call starts.
Enter(t, f) ==
    /\ frame[t].pc = "idle"
    /\ frame' = [u \in Threads |->
                    IF u = t
                    THEN [f EXCEPT !.pre = IF \A v \in Threads : frame[v].pc = "idle"
                                           THEN View(Book) ELSE <<>>]
                    ELSE [frame[u] EXCEPT !.pre = <<>>]]
    /\ UNCHANGED <<bookVars, lastOp, engineVars>>

\* a thread calls add_order with a fresh order
CallAdd(t) ==
    /\ next_order_id_ <= ConcMaxOrders
    /\ RecordLeft
    /\ \E in \in ConcInputs :
          Enter(t, [IdleFrame EXCEPT !.op = "add", !.pc = "add_store",
                        !.order = Order(next_order_id_, in[1], in[2], in[3], in[4])])
    /\ next_order_id_' = next_order_id_ + 1

\* a thread calls cancel_order
CallCancel(t) ==
    /\ \E id \in 1..(next_order_id_ - 1) :
          Enter(t, [IdleFrame EXCEPT !.op = "cancel", !.pc = "cancel_find", !.id = id])
    /\ UNCHANGED next_order_id_

\* a thread calls modify_order
CallModify(t) ==
    /\ RecordLeft
    /\ \E id \in 1..(next_order_id_ - 1), in \in ConcModifyInputs :
          Enter(t, [IdleFrame EXCEPT !.op = "modify", !.pc = "modify_find", !.id = id,
                        !.order = Order(id, "BUY", "LIMIT", in[1], in[2])])
    /\ UNCHANGED next_order_id_

\* a thread calls get_market_data
CallQuery(t) ==
    /\ Enter(t, [IdleFrame EXCEPT !.op = "query", !.pc = "query"])
    /\ UNCHANGED next_order_id_

\* thread t installs the result r of its next step
Take(t, r) ==
    /\ Install(r.b)
    /\ frame' = [frame EXCEPT ![t] = r.f]
    /\ UNCHANGED <<next_order_id_, lastOp, engineVars>>

\* add_order stores the order in the index
AddStore(t) ==
    /\ frame[t].pc = "add_store"
    /\ CanStep(t)
    /\ \E r \in {step_add_store(Book, frame[t])} : Take(t, r)

\* process_limit_order / process_market_order: the match, under book_mutex_
Process(t) ==
    /\ frame[t].pc = "process"
    /\ CanStep(t)
    /\ \E r \in {step_process(Book, frame[t])} : Take(t, r)

\* notify_trade, called by execute_trade with book_mutex_ held
NotifyTrade(t) ==
    /\ frame[t].pc = "notify_trade"
    /\ CanStep(t)
    /\ \E r \in {step_notify_trade(Book, frame[t])} : Take(t, r)

\* notify_market_data takes callbacks_mutex_
NotifyMd(t) ==
    /\ frame[t].pc = "notify_md"
    /\ CanStep(t)
    /\ \E r \in {step_notify_md(Book, frame[t])} : Take(t, r)

\* notify_market_data takes the snapshot under book_mutex_ and returns
MdSnapshot(t) ==
    /\ frame[t].pc = "md_snapshot"
    /\ CanStep(t)
    /\ \E r \in {step_md_snapshot(Book, frame[t])} : Take(t, r)

\* cancel_order looks the order up and tests its status
CancelFind(t) ==
    /\ frame[t].pc = "cancel_find"
    /\ CanStep(t)
    /\ \E r \in {step_cancel_find(Book, frame[t])} : Take(t, r)

\* cancel_order takes the order out of its level, under book_mutex_
CancelRemove(t) ==
    /\ frame[t].pc = "cancel_remove"
    /\ CanStep(t)
    /\ \E r \in {step_cancel_remove(Book, frame[t])} : Take(t, r)

\* cancel_order sets the status to CANCELLED
CancelStatus(t) ==
    /\ frame[t].pc = "cancel_status"
    /\ CanStep(t)
    /\ \E r \in {step_cancel_status(Book, frame[t])} : Take(t, r)

\* modify_order looks the order up and tests its status
ModifyFind(t) ==
    /\ frame[t].pc = "modify_find"
    /\ CanStep(t)
    /\ \E r \in {step_modify_find(Book, frame[t])} : Take(t, r)

\* get_market_data reads the book under book_mutex_
GetMarketData(t) ==
    /\ frame[t].pc = "query"
    /\ CanStep(t)
    /\ \E r \in {step_query(Book, frame[t])} : Take(t, r)

ConcNext ==
    \E t \in Threads :
        \/ CallAdd(t)
        \/ CallCancel(t)
        \/ CallModify(t)
        \/ CallQuery(t)
        \/ AddStore(t)
        \/ Process(t)
        \/ NotifyTrade(t)
        \/ NotifyMd(t)
        \/ MdSnapshot(t)
        \/ CancelFind(t)
        \/ CancelRemove(t)
        \/ CancelStatus(t)
        \/ ModifyFind(t)
        \/ GetMarketData(t)

ConcSpec == ConcInit /\ [][ConcNext]_vars

\* the book thread t's call leaves when it runs to its end with no other
\* thread taking a step
RECURSIVE run_to_end(_)
run_to_end(r) == IF r.f.pc = "idle" THEN r.b ELSE run_to_end(thread_step(r.b, r.f))

Alone(t) ==
    /\ frame[t].pc # "idle"
    /\ \A u \in Threads \ {t} : frame[u].pc = "idle"

\* C17: a single add, cancel or modify is atomic to readers: whenever one call
\* is in progress (and no other) and a market-data query can get book_mutex_,
\* the query sees the book as it was before the call or as the call leaves it
\* (for the calls that no other call overlapped).
C17_AtomicToReaders ==
    \A t \in DOMAIN frame :
        (Alone(t) /\ frame[t].pre # <<>> /\ book_mutex_ = {})
            => \/ View(Book) = frame[t].pre
               \/ View(Book) = View(run_to_end([b |-> Book, f |-> frame[t]]))

CycleOfWaits ==
    \E t, u \in DOMAIN frame :
        /\ t \in book_mutex_ /\ needs_callbacks_mutex(frame[t].pc)
        /\ u \in callbacks_mutex_ /\ needs_book_mutex(frame[u].pc)

\* C18: threads calling add_order, cancel_order and market-data queries on one
\* book never deadlock: no thread waits for callbacks_mutex_ holding book_mutex_
\* while another waits for book_mutex_ holding callbacks_mutex_, and whenever a
\* call is in progress some call in progress can take its next step.
C18_NoDeadlock ==
    /\ ~CycleOfWaits
    /\ (\E t \in DOMAIN frame : frame[t].pc # "idle")
          => \E t \in DOMAIN frame : CanStep(t)

\* the same, for add and cancel alone
C17_AddCancelAtomic ==
    \A t \in DOMAIN frame :
        (Alone(t) /\ frame[t].pre # <<>> /\ book_mutex_ = {} /\ frame[t].op # "modify")
            => \/ View(Book) = frame[t].pre
               \/ View(Book) = View(run_to_end([b |-> Book, f |-> frame[t]]))

\* -------------------------------------------------- OrderBookSimulator
\* Threads call submit_order on one engine.  Its books are OrderBook objects,
\* whose add_order is not part of the sources: the call is one step that leaves
\* the order with any status an add can leave.  A frame holds the position of
\* a submit_order call, its arguments and its local order_id.
Submitters == 1..NumSubmitters

Symbols == 1..NumSymbols

Workers == 1..NumWorkers

\* OrderBook(symbol_id): the book of a symbol as its constructor leaves it,
\* its members as one value
OrderBook ==
    [recs |-> <<>>, orders_ |-> <<>>, bids_ |-> <<>>, asks_ |-> <<>>,
     next_trade_id_ |-> 1, total_volume_ |-> 0, trade_count_ |-> 0, events |-> <<>>,
     market_data_callbacks_ |-> <<>>, trade_callbacks_ |-> <<>>]

\* the status of the order when OrderBook::add_order returns
Outcomes == {"NEW", "PARTIALLY_FILLED", "FILLED", "REJECTED"}

EngineIdle == [pc |-> "idle", order_id |-> 0, symbol_id |-> 0, outcome |-> "none"]

\* mutant: the counter is read but not advanced
fetch_add_lost(counter) == counter

\* std::atomic<uint64_t>::fetch_add(1): the value the counter holds afterwards
\* (the call returns the value it held before; the counters stay far below
\* 2^64, where they would wrap)
fetch_add(counter) == counter + 1

get_performance_metrics == [orders_processed |-> orders_processed_]

EngineInit ==
    /\ EmptyBook
    /\ lastOp = Refused("none")
    /\ next_order_id_ = 1
    /\ order_books_ = <<>>
    /\ orders_processed_ = 0
    /\ task_queue_ = <<>>
    /\ shutdown_ = FALSE
    /\ worker_threads_ = [w \in Workers |-> "waiting"]
    /\ allocated = <<>>
    /\ returned = <<>>
    /\ registered = <<>>
    /\ invoked = {}
    /\ frame = [t \in Submitters |-> EngineIdle]

\* submit_order, line 50: the id is taken from next_order_id_
SubmitOrder(t) ==
    /\ frame[t].pc = "idle"
    /\ next_order_id_ <= MaxSubmits
    /\ \E symbol_id \in Symbols :
          frame' = [frame EXCEPT ![t] = [EngineIdle EXCEPT !.pc = "find_book",
                                             !.order_id = next_order_id_,
                                             !.symbol_id = symbol_id]]
    /\ next_order_id_' = fetch_add(next_order_id_)
    /\ allocated' = Append(allocated, [order_id |-> next_order_id_, thread |-> t])
    /\ UNCHANGED <<bookVars, lastOp, order_books_, orders_processed_, task_queue_,
                   shutdown_, worker_threads_, returned, registered, invoked>>

\* submit_order, lines 57-59: the book is looked up under the shared lock
FindBook(t) ==
    /\ frame[t].pc = "find_book"
    /\ frame' = [frame EXCEPT ![t].pc = IF frame[t].symbol_id \in DOMAIN order_books_
                                        THEN "add_order" ELSE "create_book"]
    /\ UNCHANGED <<bookVars, lastOp, next_order_id_, engineVars>>

\* submit_order, lines 60-67: under the unique lock, the book is created
\* unless another thread has created it meanwhile
CreateBook(t) ==
    /\ frame[t].pc = "create_book"
    /\ order_books_' = IF frame[t].symbol_id \in DOMAIN order_books_ THEN order_books_
                       ELSE map_put(order_books_, frame[t].symbol_id, OrderBook)
    /\ frame' = [frame EXCEPT ![t].pc = "add_order"]
    /\ UNCHANGED <<bookVars, lastOp, next_order_id_, orders_processed_, task_queue_,
                   shutdown_, worker_threads_, allocated, returned, registered, invoked>>

\* how a submit_order call at position pc holds books_mutex_: the shared_lock
\* of line 57 covers the lookup, the unique_lock of line 61 the double check
\* and the insertion; the block closes on line 69
books_mutex_(pc) ==
    IF pc = "find_book" THEN "shared"
    ELSE IF pc = "create_book" THEN "unique"
    ELSE "none"

\* the positions of submit_order at which it reads or writes order_books_:
\* find (58, 63), operator[] (65, 72)
touches_order_books_(pc) == pc \in {"find_book", "create_book", "add_order"}

\* thread u is about to insert a book into order_books_ (line 65)
inserting(u) ==
    /\ frame[u].pc = "create_book"
    /\ frame[u].symbol_id \notin DOMAIN order_books_

\* the operator[] of line 72 runs while another thread may insert: a data race
raced(t) == \E u \in Submitters \ {t} : inserting(u)

\* OrderBook::add_order as the engine sees it: the book keeps the order
book_add_order(books, symbol_id, order_id, outcome) ==
    [books EXCEPT ![symbol_id].recs =
        Append(@, [order_id |-> order_id, status |-> outcome])]

\* submit_order, lines 72-73: order_books_[symbol_id].get() without a lock,
\* then order_book->add_order(order).  When the indexing races with an
\* insertion its behaviour is undefined: the order reaches its book, or the
\* lookup misses the book and the order reaches no book.
BookAddOrder(t) ==
    /\ frame[t].pc = "add_order"
    /\ \/ \E outcome \in Outcomes :
             /\ frame' = [frame EXCEPT ![t].pc = "return", ![t].outcome = outcome]
             /\ order_books_' = book_add_order(order_books_, frame[t].symbol_id,
                                               frame[t].order_id, outcome)
       \/ /\ raced(t)
          /\ frame' = [frame EXCEPT ![t].pc = "return", ![t].outcome = "undefined"]
          /\ UNCHANGED order_books_
    /\ UNCHANGED <<bookVars, lastOp, next_order_id_, orders_processed_, task_queue_,
                   shutdown_, worker_threads_, allocated, returned, registered, invoked>>

\* submit_order, line 75: return order_id
SubmitReturn(t) ==
    /\ frame[t].pc = "return"
    /\ returned' = Append(returned, [thread |-> t, order_id |-> frame[t].order_id,
                                     symbol_id |-> frame[t].symbol_id,
                                     outcome |-> frame[t].outcome])
    /\ frame' = [frame EXCEPT ![t] = EngineIdle]
    /\ UNCHANGED <<bookVars, lastOp, next_order_id_, order_books_, orders_processed_,
                   task_queue_, shutdown_, worker_threads_, allocated, registered,
                   invoked>>

\* worker_thread_function: the worker wakes when a task is queued or the
\* engine shuts down; it leaves on shutdown, else runs the task and counts it
WorkerThread(w) ==
    /\ worker_threads_[w] = "waiting"
    /\ task_queue_ # <<>> \/ shutdown_
    /\ IF shutdown_
       THEN /\ worker_threads_' = [worker_threads_ EXCEPT ![w] = "exited"]
            /\ UNCHANGED <<task_queue_, orders_processed_>>
       ELSE /\ task_queue_' = Tail(task_queue_)
            /\ orders_processed_' = fetch_add(orders_processed_)
            /\ UNCHANGED worker_threads_
    /\ UNCHANGED <<bookVars, lastOp, next_order_id_, frame, order_books_, shutdown_,
                   allocated, returned, registered, invoked>>

\* stop_simulation, line 191
StopSimulation ==
    /\ ~shutdown_
    /\ shutdown_' = TRUE
    /\ UNCHANGED <<bookVars, lastOp, next_order_id_, frame, order_books_,
                   orders_processed_, task_queue_, worker_threads_, allocated, returned,
                   registered, invoked>>

EngineNext ==
    \/ \E t \in Submitters :
          \/ SubmitOrder(t)
          \/ FindBook(t)
          \/ CreateBook(t)
          \/ BookAddOrder(t)
          \/ SubmitReturn(t)
    \/ \E w \in Workers : WorkerThread(w)
    \/ StopSimulation

EngineSpec == EngineInit /\ [][EngineNext]_vars

\* the ids thread t was allocated / got back from submit_order, in order
AllocatedTo(t) == SelectSeq(allocated, LAMBDA a : a.thread = t)

ReturnedTo(t) == SelectSeq(returned, LAMBDA r : r.thread = t)

\* C19: the order ids submit_order returns are pairwise distinct over all
\* threads and symbols; the ids allocated start at 1 and strictly increase in
\* the order of the allocations; and each call returns the id it allocated,
\* whatever status the book left the order with.
C19_UniqueIncreasingIds ==
    /\ \A i, j \in 1..Len(returned) : i # j => returned[i].order_id # returned[j].order_id
    /\ allocated # <<>> => allocated[1].order_id = 1
    /\ \A i \in 1..(Len(allocated) - 1) : allocated[i].order_id < allocated[i + 1].order_id
    /\ \A t \in DOMAIN frame :
          /\ Len(ReturnedTo(t)) <= Len(AllocatedTo(t))
          /\ \A k \in 1..Len(ReturnedTo(t)) :
                ReturnedTo(t)[k].order_id = AllocatedTo(t)[k].order_id

\* two threads got ids back for two symbols, one for an order that was
\* rejected and one for an order that was filled
C19_Witness ==
    \E i, j \in 1..Len(returned) :
        /\ returned[i].thread # returned[j].thread
        /\ returned[i].symbol_id # returned[j].symbol_id
        /\ returned[i].outcome = "REJECTED"
        /\ returned[j].outcome = "FILLED"
        /\ returned[i].order_id # returned[j].order_id

\* C20: once a submit_order call has completed, performance_metrics() reports
\* orders_processed > 0.
C20_OrdersProcessedCounted ==
    returned # <<>> => get_performance_metrics.orders_processed > 0

\* the trades whose trade callbacks have been called
FiredTrades == {events[i].trade_id : i \in TradeEvents}

\* the trades the book has made: those its state (volume, ladders) reflects
ExecutedTrades == 1..(next_trade_id_ - 1)

C21_Step ==
    \A t \in DOMAIN frame :
        (frame[t].pc = "md_snapshot" /\ frame'[t].pc # "md_snapshot")
            => ExecutedTrades \subseteq FiredTrades

\* C21: when a market-data callback fires (notify_market_data has taken its
\* snapshot), the trade callback has fired for every trade that snapshot
\* reflects, that is, for every trade the book has made by then; also when
\* several threads call the book concurrently.
C21_TradeBeforeMarketData == [][C21_Step]_vars

\* a call that traded is about to fire its market-data callback while another
\* thread's call is in progress
C21_Witness ==
    \E t, u \in DOMAIN frame :
        /\ t # u
        /\ frame[t].pc = "md_snapshot"
        /\ frame[t].op = "add"
        /\ book_mutex_ = {}
        /\ trade_count_ > 0
        /\ FiredTrades = ExecutedTrades
        /\ recs[frame[t].h].filled_quantity > 0
        /\ frame[u].pc \notin {"idle", "query"}

\* ------------------------------------- OrderBookSimulator with its books
\* One caller at a time uses the engine: submit_order, cancel_order,
\* modify_order, the market-data queries and the callback registrations.  The
\* books of order_books_ are kept in full.  The definitions of the methods of
\* class OrderBook are not among the sources; its declaration is that of
\* SimpleOrderBook, whose operations stand for them here.  A callback is known
\* by the number of the call that registered it (its index in `registered`).
SimInputs == ({"LIMIT"} \X (1..MaxQty) \X {1}) \cup ({"MARKET"} \X {1} \X {0})

SimModifyInputs == {1} \X {0, MaxPrice}

Callbacks == 1..MaxCallbacks

\* MarketDataSnapshot(symbol): the fields get_market_data sets, all zero
MarketDataSnapshot ==
    [best_bid_price |-> 0, best_bid_quantity |-> 0, best_ask_price |-> 0,
     best_ask_quantity |-> 0, volume |-> 0]

Simulator_get_market_data(books, symbol_id) ==
    IF symbol_id \in DOMAIN books THEN get_market_data(books[symbol_id])
    ELSE MarketDataSnapshot

Simulator_get_bid_levels(books, symbol_id, depth) ==
    IF symbol_id \in DOMAIN books THEN get_bid_levels(books[symbol_id], depth)
    ELSE <<>>

Simulator_get_ask_levels(books, symbol_id, depth) ==
    IF symbol_id \in DOMAIN books THEN get_ask_levels(books[symbol_id], depth)
    ELSE <<>>

\* the registrations of a book
register_market_data_callback(b, callback) ==
    [b EXCEPT !.market_data_callbacks_ = Append(@, callback)]

register_trade_callback(b, callback) ==
    [b EXCEPT !.trade_callbacks_ = Append(@, callback)]

Simulator_register_market_data_callback(books, symbol_id, callback) ==
    IF symbol_id \in DOMAIN books
    THEN [books EXCEPT ![symbol_id] = register_market_data_callback(@, callback)]
    ELSE books

\* mutant: registering for a symbol without a book creates the book
Simulator_register_trade_callback_creates(books, symbol_id, callback) ==
    map_put(books, symbol_id,
            register_trade_callback(IF symbol_id \in DOMAIN books THEN books[symbol_id]
                                    ELSE OrderBook, callback))

Simulator_register_trade_callback(books, symbol_id, callback) ==
    IF symbol_id \in DOMAIN books
    THEN [books EXCEPT ![symbol_id] = register_trade_callback(@, callback)]
    ELSE books

\* the callbacks the events of one call on book b have called: each trade
\* goes to every trade callback of the book, each snapshot to every
\* market-data callback
called(b) ==
    (IF \E i \in 1..Len(b.events) : b.events[i].kind = "trade"
     THEN {b.trade_callbacks_[i] : i \in 1..Len(b.trade_callbacks_)} ELSE {})
      \cup
    (IF \E i \in 1..Len(b.events) : b.events[i].kind = "md"
     THEN {b.market_data_callbacks_[i] : i \in 1..Len(b.market_data_callbacks_)} ELSE {})

\* submit_order, lines 56-69: the book of the symbol, created if there is none
get_or_create(books, symbol_id) ==
    IF symbol_id \in DOMAIN books THEN books ELSE map_put(books, symbol_id, OrderBook)

\* the engine after the call r of a book operation on the book of symbol_id;
\* the callbacks the call has called are noted, its events dropped
dispatched(books, symbol_id, r) ==
    [books |-> map_put(books, symbol_id, [r.b EXCEPT !.events = <<>>]),
     ret |-> r.ret, called |-> called(r.b), symbol_id |-> symbol_id]

\* the book of symbol_id at the start of a call on it
entered(books, symbol_id) == [books[symbol_id] EXCEPT !.events = <<>>]

\* submit_order, lines 53-73, for the order it has constructed
Simulator_submit_order(books, symbol_id, order) ==
    dispatched(books, symbol_id,
               add_order(entered(get_or_create(books, symbol_id), symbol_id), order))

\* iteration over order_books_, an unordered_map: its order is any order of
\* the symbols
ScanOrders(books) ==
    {q \in [1..Cardinality(DOMAIN books) -> DOMAIN books] :
        \A i, j \in DOMAIN q : i # j => q[i] # q[j]}

no_book_took_it(books) == [books |-> books, ret |-> FALSE, called |-> {}, symbol_id |-> 0]

\* the for loop of OrderBookSimulator::cancel_order: cancel_scan is the loop
\* test and the call, cancel_next the test of its result
RECURSIVE cancel_scan(_, _, _, _)
RECURSIVE cancel_next(_, _, _, _, _)

\* mutant: only the first book of the scan is asked
cancel_scan_first_only(books, scan, i, order_id) ==
    IF i > Len(scan) \/ i > 1 THEN no_book_took_it(books)
    ELSE cancel_next(books, scan, i, order_id,
                     cancel_order(entered(books, scan[i]), order_id))

cancel_next(books, scan, i, order_id, r) ==
    IF r.ret THEN dispatched(books, scan[i], r)
    ELSE cancel_scan(map_put(books, scan[i], r.b), scan, i + 1, order_id)

cancel_scan(books, scan, i, order_id) ==
    IF i > Len(scan) THEN no_book_took_it(books)
    ELSE cancel_next(books, scan, i, order_id,
                     cancel_order(entered(books, scan[i]), order_id))

Simulator_cancel_order(books, scan, order_id) == cancel_scan(books, scan, 1, order_id)

\* the for loop of OrderBookSimulator::modify_order
RECURSIVE modify_scan(_, _, _, _, _, _)
RECURSIVE modify_next(_, _, _, _, _, _, _)
modify_next(books, scan, i, order_id, new_quantity, new_price, r) ==
    IF r.ret THEN dispatched(books, scan[i], r)
    ELSE modify_scan(map_put(books, scan[i], r.b), scan, i + 1, order_id,
                     new_quantity, new_price)

modify_scan(books, scan, i, order_id, new_quantity, new_price) ==
    IF i > Len(scan) THEN no_book_took_it(books)
    ELSE modify_next(books, scan, i, order_id, new_quantity, new_price,
                     modify_order(entered(books, scan[i]), order_id,
                                  new_quantity, new_price))

Simulator_modify_order(books, scan, order_id, new_quantity, new_price) ==
    modify_scan(books, scan, 1, order_id, new_quantity, new_price)

\* Order records the books hold
RECURSIVE RecordsIn(_, _)
RecordsIn(books, S) ==
    IF S = {} THEN 0
    ELSE LET s == CHOOSE x \in S : TRUE
         IN Len(books[s].recs) + RecordsIn(books, S \ {s})

SimRecordLeft == RecordsIn(order_books_, DOMAIN order_books_) < SimMaxRecs

\* the last call made at the engine: for a cancel or modify that took effect
\* its arguments and the symbol of the book that took it; a refused cancel or
\* modify and a registration are recorded by their kind alone
SimOp(op, id, symbol_id, ret, new_quantity, new_price) ==
    [op |-> op, id |-> id, h |-> NULL, ret |-> ret, new_quantity |-> new_quantity,
     new_price |-> new_price, symbol_id |-> symbol_id]

SimInit ==
    /\ EmptyBook
    /\ next_order_id_ = 1
    /\ lastOp = SimOp("none", 0, 0, FALSE, 0, 0)
    /\ frame = <<>>
    /\ order_books_ = <<>>
    /\ orders_processed_ = 0
    /\ task_queue_ = <<>>
    /\ shutdown_ = FALSE
    /\ worker_threads_ = <<>>
    /\ allocated = <<>>
    /\ returned = <<>>
    /\ registered = <<>>
    /\ invoked = {}

\* what a call leaves alone besides the books and the callbacks
SimRest ==
    UNCHANGED <<bookVars, frame, orders_processed_, task_queue_, shutdown_,
                worker_threads_, allocated>>

\* the result r of a call that went to the books is installed
SimTake(r) ==
    /\ order_books_' = r.books
    /\ invoked' = invoked \cup r.called

SimSubmit ==
    /\ next_order_id_ <= SimMaxOrders
    /\ SimRecordLeft
    /\ \E symbol_id \in Symbols, s \in Sides, in \in SimInputs :
          \E r \in {Simulator_submit_order(order_books_, symbol_id,
                        Order(next_order_id_, s, in[1], in[2], in[3]))} :
             /\ SimTake(r)
             /\ returned' = Append(returned,
                    [thread |-> 0, order_id |-> next_order_id_, symbol_id |-> symbol_id,
                     outcome |-> r.books[symbol_id].recs[
                                     r.books[symbol_id].orders_[next_order_id_]].status])
             /\ lastOp' = SimOp("submit", next_order_id_, symbol_id, r.ret, 0, 0)
    /\ next_order_id_' = fetch_add(next_order_id_)
    /\ UNCHANGED registered
    /\ SimRest

SimCancel ==
    /\ \E order_id \in KnownIds, scan \in ScanOrders(order_books_) :
          \E r \in {Simulator_cancel_order(order_books_, scan, order_id)} :
             /\ SimTake(r)
             /\ lastOp' = IF r.ret THEN SimOp("cancel", order_id, r.symbol_id, TRUE, 0, 0)
                          ELSE SimOp("cancel", 0, 0, FALSE, 0, 0)
    /\ UNCHANGED <<next_order_id_, returned, registered>>
    /\ SimRest

SimModify ==
    /\ SimRecordLeft
    /\ \E order_id \in KnownIds, scan \in ScanOrders(order_books_), in \in SimModifyInputs :
          \E r \in {Simulator_modify_order(order_books_, scan, order_id, in[1], in[2])} :
             /\ SimTake(r)
             /\ lastOp' = IF r.ret
                          THEN SimOp("modify", order_id, r.symbol_id, TRUE, in[1], in[2])
                          ELSE SimOp("modify", 0, 0, FALSE, 0, 0)
    /\ UNCHANGED <<next_order_id_, returned, registered>>
    /\ SimRest

SimRegisterTradeCallback ==
    /\ Len(registered) < MaxCallbacks
    /\ \E symbol_id \in Symbols :
          /\ order_books_' = Simulator_register_trade_callback(order_books_, symbol_id,
                                 Len(registered) + 1)
          /\ registered' = Append(registered, [kind |-> "trade", symbol_id |-> symbol_id,
                                      used |-> \E i \in 1..Len(returned) :
                                                   returned[i].symbol_id = symbol_id])
          /\ lastOp' = SimOp("register_trade_callback", 0, 0, FALSE, 0, 0)
    /\ UNCHANGED <<next_order_id_, returned, invoked>>
    /\ SimRest

SimRegisterMarketDataCallback ==
    /\ Len(registered) < MaxCallbacks
    /\ \E symbol_id \in Symbols :
          /\ order_books_' = Simulator_register_market_data_callback(order_books_,
                                 symbol_id, Len(registered) + 1)
          /\ registered' = Append(registered, [kind |-> "md", symbol_id |-> symbol_id,
                                      used |-> \E i \in 1..Len(returned) :
                                                   returned[i].symbol_id = symbol_id])
          /\ lastOp' = SimOp("register_market_data_callback", 0, 0, FALSE, 0, 0)
    /\ UNCHANGED <<next_order_id_, returned, invoked>>
    /\ SimRest

SimNext ==
    \/ SimSubmit
    \/ SimCancel
    \/ SimModify
    \/ SimRegisterTradeCallback
    \/ SimRegisterMarketDataCallback

SimSpec == SimInit /\ [][SimNext]_vars

\* the symbols a submission has been made for
Submitted == {returned[i].symbol_id : i \in 1..Len(returned)}

\* the registrations made for a symbol that had not received a submission
Dropped == {i \in 1..Len(registered) : ~registered[i].used}

Registrations(b) ==
    {b.trade_callbacks_[i] : i \in 1..Len(b.trade_callbacks_)}
      \cup {b.market_data_callbacks_[i] : i \in 1..Len(b.market_data_callbacks_)}

\* C22: for a symbol that has never received a submission there is no book,
\* the engine's market data is the all-zero snapshot, its bid_levels and
\* ask_levels are empty, and register_trade_callback and
\* register_market_data_callback leave the engine as it is; a callback
\* registered for a symbol before its first submission is held by no book and
\* is never called, whatever is submitted for that symbol afterwards.
C22_UnusedSymbol ==
    /\ \A s \in Symbols \ Submitted :
          /\ s \notin DOMAIN order_books_
          /\ Simulator_get_market_data(order_books_, s) =
                [best_bid_price |-> 0, best_bid_quantity |-> 0, best_ask_price |-> 0,
                 best_ask_quantity |-> 0, volume |-> 0]
          /\ \A depth \in Depths :
                /\ Simulator_get_bid_levels(order_books_, s, depth) = <<>>
                /\ Simulator_get_ask_levels(order_books_, s, depth) = <<>>
          /\ \A callback \in Callbacks :
                /\ Simulator_register_trade_callback(order_books_, s, callback)
                      = order_books_
                /\ Simulator_register_market_data_callback(order_books_, s, callback)
                      = order_books_
    /\ \A i \in Dropped :
          /\ i \notin invoked
          /\ \A s \in DOMAIN order_books_ : i \notin Registrations(order_books_[s])

\* a trade callback was registered for a symbol before its first submission;
\* orders submitted for that symbol since have traded; the other symbol is
\* still unused
C22_Witness ==
    \E i \in Dropped :
        /\ registered[i].kind = "trade"
        /\ registered[i].symbol_id \in DOMAIN order_books_
        /\ order_books_[registered[i].symbol_id].trade_count_ > 0
        /\ Symbols \ Submitted # {}
        /\ lastOp.op = "submit"

\* ------------------------------- concurrent submitters to a book with depth
\* Threads add orders to a SimpleOrderBook that holds one resting order of
\* quantity MaxQty, left there by an earlier add_order: the orders the threads
\* add can each trade with it.
RestingFirst(s) ==
    [add_order(OrderBook, Order(1, s, "LIMIT", MaxQty, 1)).b EXCEPT !.events = <<>>]

RaceInit ==
    /\ \E s \in Sides :
          /\ recs = RestingFirst(s).recs
          /\ orders_ = RestingFirst(s).orders_
          /\ bids_ = RestingFirst(s).bids_
          /\ asks_ = RestingFirst(s).asks_
          /\ next_trade_id_ = RestingFirst(s).next_trade_id_
          /\ total_volume_ = RestingFirst(s).total_volume_
          /\ trade_count_ = RestingFirst(s).trade_count_
          /\ events = RestingFirst(s).events
    /\ next_order_id_ = 2
    /\ lastOp = Refused("none")
    /\ EngineUnused
    /\ frame = [t \in Threads |-> IdleFrame]

\* a thread calls add_order with a fresh order
RaceAdd(t) ==
    /\ next_order_id_ <= RaceMaxOrders
    /\ \E in \in ConcInputs :
          Enter(t, [IdleFrame EXCEPT !.op = "add", !.pc = "add_store",
                        !.order = Order(next_order_id_, in[1], in[2], in[3], in[4])])
    /\ next_order_id_' = next_order_id_ + 1

RaceNext ==
    \E t \in Threads :
        \/ RaceAdd(t)
        \/ AddStore(t)
        \/ Process(t)
        \/ NotifyTrade(t)
        \/ NotifyMd(t)
        \/ MdSnapshot(t)

RaceSpec == RaceInit /\ [][RaceNext]_vars

C23_Step ==
    /\ \A i \in 1..Len(events') : events'[i].kind = "trade" /\ events'[i].trade_id = i
    /\ next_trade_id_' >= next_trade_id_
    /\ total_volume_' >= total_volume_
    /\ trade_count_' >= trade_count_

\* C23: the trades of a book are emitted (their trade callbacks called) with
\* the trade ids 1, 2, 3, ... in this order, hence pairwise distinct and
\* strictly increasing, also when threads submit concurrently; and no step
\* decreases total_volume or trade_count.
C23_TradeIdsIncrease == [][C23_Step]_vars

\* two threads' orders have each traded, and both calls are still in progress
C23_Witness ==
    \E t, u \in DOMAIN frame :
        /\ t # u
        /\ Len(events) = 2
        /\ events[1].trade_id = 1
        /\ events[2].trade_id = 2
        /\ frame[t].pc # "idle"
        /\ frame[u].pc # "idle"
        /\ frame[t].h = events[1].aggressor
        /\ frame[u].h = events[2].aggressor
        /\ total_volume_ = 2
        /\ trade_count_ = 2

\* the ladders, index, order records and counters of a book
BookState(b) ==
    <<b.recs, b.orders_, b.bids_, b.asks_, b.next_trade_id_, b.total_volume_,
      b.trade_count_>>

\* the books whose index holds the id
Owners(id) == {s \in DOMAIN order_books_ : id \in DOMAIN order_books_[s].orders_}

\* the books after the call r went to them: every book is still there; the
\* book that owns the id is as its own operation own(b) leaves it, every other
\* book as it was; and the call returns what the owner's operation returns,
\* false if no book owns the id
Dispatched(r, id, own(_)) ==
    /\ DOMAIN r.books = DOMAIN order_books_
    /\ \A s \in DOMAIN order_books_ :
          BookState(r.books[s]) =
              IF s \in Owners(id) THEN BookState(own(order_books_[s]).b)
              ELSE BookState(order_books_[s])
    /\ r.ret = (\E s \in Owners(id) : own(order_books_[s]).ret)

\* C24: the engine's cancel_order(order_id) and modify_order(order_id, ...)
\* act on the book that owns the id (there is at most one) and return that
\* book's result; the ladders, index, order records and counters of every other
\* book are unchanged; and they return false when no book accepts the id.
\* This for every order in which the books may be scanned (modify_order for
\* the books that have room for the replacement record).
C24_CancelModifyDispatch ==
    \A id \in KnownIds :
        /\ Cardinality(Owners(id)) <= 1
        /\ \A scan \in ScanOrders(order_books_) :
              /\ Dispatched(Simulator_cancel_order(order_books_, scan, id), id,
                            LAMBDA b : cancel_order(b, id))
              /\ \A in \in SimModifyInputs :
                    SimRecordLeft =>
                    Dispatched(Simulator_modify_order(order_books_, scan, id, in[1], in[2]),
                               id, LAMBDA b : modify_order(b, id, in[1], in[2]))

\* the engine cancelled an order of one book while the other book holds a
\* resting order
C24_Witness ==
    /\ lastOp.op = "cancel"
    /\ lastOp.ret
    /\ Cardinality(DOMAIN order_books_) = 2
    /\ \A s \in DOMAIN order_books_ :
          IF s = lastOp.symbol_id
          THEN /\ lastOp.id \in DOMAIN order_books_[s].orders_
               /\ order_books_[s].recs[order_books_[s].orders_[lastOp.id]].status
                     = "CANCELLED"
          ELSE /\ DOMAIN order_books_[s].bids_ \cup DOMAIN order_books_[s].asks_ # {}
               /\ lastOp.id \notin DOMAIN order_books_[s].orders_

\* the remaining quantity resting, before the arrival, in the levels of ladder
\* m whose price the arriving order o accepts
RECURSIVE RestingWithin(_, _, _)
RestingWithin(m, o, S) ==
    IF S = {} THEN 0
    ELSE LET p == CHOOSE x \in S : TRUE
         IN (IF price_acceptable(o, p) THEN SumRemaining(m[p].orders_, recs) ELSE 0)
               + RestingWithin(m, o, S \ {p})

C25_StepFor(sides) ==
    (/\ lastOp'.op = "add"
     /\ AllPositive'
     /\ recs'[lastOp'.h].order_type = "LIMIT"
     /\ recs'[lastOp'.h].side \in sides)
        => LET o   == recs'[lastOp'.h]
               opp == IF o.side = "BUY" THEN asks_ ELSE bids_
           IN o.filled_quantity
                 = Min2(o.quantity, RestingWithin(opp, o, DOMAIN opp))

\* C25: the quantity an incoming LIMIT order of either side fills on arrival is
\* min(its quantity, the remaining quantity resting on the opposite side at
\* prices within its limit): matching goes on to the next best level when the
\* best one is exhausted, for SELL orders down the bids as for BUY orders up
\* the asks (all quantities positive).
C25_SweepsAllLevels == [][C25_StepFor(Sides)]_vars

\* the same, for incoming BUY orders alone
C25_BuySweepsAllLevels == [][C25_StepFor({"BUY"})]_vars

C26_StepFor(statuses) ==
    \A h \in Handles :
        (AllPositive' /\ recs[h].status \in statuses)
            => /\ recs'[h].status = recs[h].status
               /\ recs'[h].filled_quantity = recs[h].filled_quantity

\* C26: once the status of an order record is terminal (FILLED, CANCELLED or
\* REJECTED), no later operation changes its status or its filled_quantity; in
\* particular cancel does not turn a REJECTED MARKET order into CANCELLED (all
\* quantities positive).
C26_TerminalIsFinal == [][C26_StepFor(Terminal)]_vars

\* the same, for FILLED and CANCELLED alone
C26_FilledCancelledFinal == [][C26_StepFor({"FILLED", "CANCELLED"})]_vars

\* C27: after every completed operation, the status of an order record is
\* FILLED if and only if its filled_quantity equals its quantity.
C27_FilledIffComplete ==
    \A h \in Handles : (recs[h].status = "FILLED") <=> is_filled(recs[h])

\* the same, for books that never received an order of quantity 0
C27_FilledIffCompletePositive == AllPositive => C27_FilledIffComplete

C28_Step ==
    /\ \A h \in 1..Len(recs') :
          /\ 0 <= recs'[h].filled_quantity
          /\ recs'[h].filled_quantity <= recs'[h].quantity
          /\ remaining_quantity(recs'[h]) >= 0
    /\ \A h \in Handles : recs'[h].filled_quantity >= recs[h].filled_quantity

\* C28: for every order record, 0 <= filled_quantity <= quantity after every
\* operation, and no operation decreases a filled_quantity; so
\* remaining_quantity = quantity - filled_quantity never goes below 0 (never
\* wraps around as an unsigned number).
C28_FilledWithinQuantity == [][C28_Step]_vars

\* an incoming order of quantity 2 took all of a smaller resting order and is
\* itself filled in part
C28_Witness ==
    /\ lastOp.op = "add"
    /\ LastAdded.quantity = MaxQty
    /\ LastAdded.filled_quantity > 0
    /\ LastAdded.filled_quantity < LastAdded.quantity
    /\ \E i \in TradeEvents :
          /\ events[i].aggressor = lastOp.h
          /\ recs[events[i].resting].quantity < LastAdded.quantity
          /\ is_filled(recs[events[i].resting])
          /\ events[i].quantity = recs[events[i].resting].quantity

\* the orders of a level that are live: status NEW or PARTIALLY_FILLED, with
\* quantity still to fill
LiveIn(lvl) ==
    {i \in 1..Len(lvl.orders_) :
        /\ recs[lvl.orders_[i]].status \in {"NEW", "PARTIALLY_FILLED"}
        /\ remaining_quantity(recs[lvl.orders_[i]]) > 0}

\* C29: after every completed add, cancel or modify, no level of either ladder
\* is empty: each holds at least one live order and has total_quantity > 0.
C29_NoEmptyLevel ==
    \A lvl \in Levels : LiveIn(lvl) # {} /\ get_total_quantity(lvl) > 0

\* the same, for books that never received an order of quantity 0
C29_NoEmptyLevelPositive == AllPositive => C29_NoEmptyLevel

\* C30: every trade a book makes has quantity > 0: execute_trade is never
\* called (the trade callback never fired, trade_count never incremented)
\* with a quantity of 0.
C30_TradeQuantityPositive ==
    \A i \in TradeEvents : events[i].quantity > 0

\* the same, for books that never received an order of quantity 0
C30_PositiveOrdersTradePositive == AllPositive => C30_TradeQuantityPositive

\* the index holds, for id, an order that is neither FILLED, CANCELLED nor
\* REJECTED
LiveId(id) ==
    id \in DOMAIN orders_ /\ recs[orders_[id]].status \in {"NEW", "PARTIALLY_FILLED"}

\* the book and the new record after add_order of an order made with an id
\* taken from the index
ReusedIdRejected(id, r) ==
    /\ r.b.recs[r.h].status = "REJECTED"
    /\ r.b.recs[r.h].filled_quantity = 0
    /\ r.b.orders_[id] = orders_[id]
    /\ r.h \notin RestingHandlesOf(r.b)
    /\ Queues(r.b.bids_) = Queues(bids_)
    /\ Queues(r.b.asks_) = Queues(asks_)
    /\ r.b.trade_count_ = trade_count_

\* C31: add_order of an order whose order_id is that of a live order of the
\* index is REJECTED: the index still maps the id to the existing order, which
\* keeps its place in its level, and the new order neither matches nor rests
\* (all quantities positive).
C31_ReusedIdRejected ==
    \A id \in DOMAIN orders_ :
        (AllPositive /\ LiveId(id)) =>
            \A s \in Sides, in \in OrderInputs :
                in[2] > 0 =>
                    ReusedIdRejected(id, add_order(Fresh, Order(id, s, in[1], in[2], in[3])))

\* the places <<side, price, position>> at which record h is queued
PlacesIn(side, m, h) ==
    {x \in {side} \X (DOMAIN m) \X (1..MaxRecs) :
        x[3] <= Len(m[x[2]].orders_) /\ m[x[2]].orders_[x[3]] = h}

PlacesOf(h) == PlacesIn("BUY", bids_, h) \cup PlacesIn("SELL", asks_, h)

\* C32: after every completed operation, each order that rests (is queued in
\* a level) is live, is queued exactly once, in the level of its own price on
\* its own side, and the index maps its id to that record; no CANCELLED or
\* FILLED order is left in a level.
C32_RestingOnceAndIndexed ==
    \A h \in RestingHandles :
        /\ recs[h].status \in {"NEW", "PARTIALLY_FILLED"}
        /\ \A x \in PlacesOf(h) : x[1] = recs[h].side /\ x[2] = recs[h].price
        /\ Cardinality(PlacesOf(h)) = 1
        /\ recs[h].order_id \in DOMAIN orders_
        /\ orders_[recs[h].order_id] = h

\* the same, for books that never received an order of quantity 0
C32_RestingOnceAndIndexedPositive == AllPositive => C32_RestingOnceAndIndexed

\* ---------------------------------------------------------------- C33
\* the quantity that record h traded in the events of one operation
RECURSIVE TradedBy(_, _)
TradedBy(ev, h) ==
    IF ev = <<>> THEN 0
    ELSE (IF Head(ev).kind = "trade" /\ h \in {Head(ev).aggressor, Head(ev).resting}
          THEN Head(ev).quantity ELSE 0) + TradedBy(Tail(ev), h)

\* the quantity of all trades in the events of one operation
RECURSIVE TradedQuantity(_)
TradedQuantity(ev) ==
    IF ev = <<>> THEN 0
    ELSE (IF Head(ev).kind = "trade" THEN Head(ev).quantity ELSE 0)
         + TradedQuantity(Tail(ev))

FilledBefore(h) == IF h \in Handles THEN recs[h].filled_quantity ELSE 0

C33_Step ==
    /\ \A i \in TradeEvents' :
          /\ recs'[events'[i].aggressor].side # recs'[events'[i].resting].side
          /\ events'[i].buy_order_id # events'[i].sell_order_id
          /\ \E b \in {events'[i].aggressor, events'[i].resting} :
                recs'[b].side = "BUY" /\ recs'[b].order_id = events'[i].buy_order_id
          /\ \E s \in {events'[i].aggressor, events'[i].resting} :
                recs'[s].side = "SELL" /\ recs'[s].order_id = events'[i].sell_order_id
    /\ \A h \in Handles' :
          recs'[h].filled_quantity = FilledBefore(h) + TradedBy(events', h)
    /\ total_volume_' = total_volume_ + TradedQuantity(events')
    /\ trade_count_' = trade_count_ + Cardinality(TradeEvents')
    /\ Snapshot'.volume = total_volume_'

\* C33: every trade of an operation has one BUY and one SELL participant with
\* distinct ids; each order's filled_quantity advances by exactly the
\* quantities of the trades it took part in, total_volume_ by the quantity of
\* all the operation's trades and trade_count_ by their number, so that
\* total_volume_ stays the sum of all emitted trade quantities, and the
\* snapshot's volume is total_volume_.
C33_TradeConservation == [][C33_Step]_vars

C33_Witness ==
    /\ lastOp.op = "add"
    /\ TradeEvents # {}
    /\ \A i \in TradeEvents : events[i].quantity > 0
    /\ total_volume_ > TradedQuantity(events)
    /\ Snapshot.volume = total_volume_

DistinctParticipants(ev) ==
    \A i \in 1..Len(ev) :
        ev[i].kind = "trade" => ev[i].buy_order_id # ev[i].sell_order_id

\* C33 for callers that pass any id to add_order: every trade of an add of
\* positive quantity to a book of positive quantities has a buyer and a seller
\* with distinct ids.
C33_TradeParticipantsDistinct ==
    AllPositive =>
        \A id \in KnownIds, s \in Sides, in \in OrderInputs :
            in[2] > 0 =>
                DistinctParticipants(add_order(Fresh, Order(id, s, in[1], in[2], in[3])).b.events)

\* ---------------------------------------------------------------- C34
\* the book after add_order, with the type of the added record left out
AddedAs(type, s, qty, px) ==
    LET r == add_order(Fresh, Order(next_order_id_, s, type, qty, px))
    IN [r.b EXCEPT !.recs[r.h].order_type = "LIMIT"]

StopAsLimit ==
    \A s \in Sides, qty \in 1..MaxQty, px \in Prices :
        AddedAs("STOP", s, qty, px) = AddedAs("LIMIT", s, qty, px)

\* record h is the last order of the level at its own price on its own side
\* and is queued nowhere else
AtTailOfOwnLevel(h) ==
    /\ recs[h].price \in DOMAIN OwnLadder(h)
    /\ LET q == OwnLadder(h)[recs[h].price].orders_
       IN q # <<>> /\ q[Len(q)] = h
    /\ Cardinality(PlacesOf(h)) = 1

C34_Step ==
    (/\ lastOp'.op = "add"
     /\ recs'[lastOp'.h].order_type \in {"LIMIT", "STOP"}
     /\ recs'[lastOp'.h].quantity > 0)
       => /\ IF recs'[lastOp'.h].filled_quantity = recs'[lastOp'.h].quantity
             THEN /\ recs'[lastOp'.h].status = "FILLED"
                  /\ (PlacesOf(lastOp.h) = {})'
             ELSE /\ AtTailOfOwnLevel(lastOp.h)'
                  /\ recs'[lastOp'.h].status =
                        (IF TradedBy(events', lastOp'.h) = 0
                         THEN "NEW" ELSE "PARTIALLY_FILLED")
          /\ StopAsLimit

\* C34: after add_order of a LIMIT or STOP order of positive quantity, the
\* order is FILLED and in no level if it matched fully; otherwise it is the
\* last order of the level at its own price on its own side, NEW if nothing
\* of it matched and PARTIALLY_FILLED if part of it matched.  A STOP order
\* leaves the book exactly as the LIMIT order of the same side, quantity and
\* price does.
C34_LimitOrderOutcome == [][C34_Step]_vars

\* C34 on books whose orders all have positive quantity
C34_LimitOrderOutcomePositive == [][AllPositive' => C34_Step]_vars

C34_Witness ==
    /\ lastOp.op = "add"
    /\ LastAdded.order_type = "STOP"
    /\ LastAdded.status = "PARTIALLY_FILLED"
    /\ LastAdded.filled_quantity = 1
    /\ AtTailOfOwnLevel(lastOp.h)

\* ---------------------------------------------------------------- C35
\* C35: every access of submit_order to order_books_ is made while holding
\* books_mutex_; in particular no thread indexes the registry without a lock
\* while another thread is about to insert into it.
C35_RegistryAccessLocked ==
    \A t \in Submitters :
        (touches_order_books_(frame[t].pc) /\ raced(t))
            => books_mutex_(frame[t].pc) # "none"

\* the lookup and the insertion themselves are made under the lock
C35_LookupAndInsertLocked ==
    \A t \in Submitters :
        /\ frame[t].pc = "find_book" => books_mutex_(frame[t].pc) \in {"shared", "unique"}
        /\ inserting(t) => books_mutex_(frame[t].pc) = "unique"

\* ---------------------------------------------------------------- C36
\* the ids of the orders the book of a symbol was given
OrdersIn(books, symbol_id) ==
    {books[symbol_id].recs[i].order_id : i \in 1..Len(books[symbol_id].recs)}

\* every submit_order call that returned left its order in the book of its symbol
NoneLost ==
    \A i \in 1..Len(returned) :
        /\ returned[i].symbol_id \in DOMAIN order_books_
        /\ returned[i].order_id \in OrdersIn(order_books_, returned[i].symbol_id)

\* a book, once created, stays the book of its symbol and keeps its orders
BooksKept ==
    \A s \in DOMAIN order_books_ :
        /\ s \in DOMAIN order_books_'
        /\ Len(order_books_[s].recs) <= Len(order_books_'[s].recs)
        /\ SubSeq(order_books_'[s].recs, 1, Len(order_books_[s].recs)) = order_books_[s].recs

\* all the submissions so far were for symbol 1
OneSymbolOnly ==
    /\ DOMAIN order_books_ \subseteq {1}
    /\ \A t \in Submitters : frame[t].symbol_id \in {0, 1}

C36_Step == BooksKept /\ NoneLost'

C36_FirstOrdersOneBookAlone == [][OneSymbolOnly' => C36_Step]_vars

\* two threads both found no book for symbol 1, one created it, and both
\* orders are in it
C36_BothInOneBook ==
    /\ DOMAIN order_books_ = {1}
    /\ Len(returned) >= 2
    /\ returned[1].thread # returned[2].thread
    /\ {returned[1].order_id, returned[2].order_id} \subseteq OrdersIn(order_books_, 1)

\* ---------------------------------------------------------- C37 and C38
\* thread t is inside cancel_order(id) past the status test of line 183: the
\* rest of the function (lines 188-207) has no return but `return true`
PastStatusTest(t) ==
    /\ frame[t].op = "cancel"
    /\ frame[t].pc \in {"cancel_remove", "cancel_status", "notify_md", "md_snapshot"}

\* the trades executed so far: announced (events) or waiting for notify_trade
\* in the frame of the thread that matched
ExecutedSoFar ==
    {events[i] : i \in TradeEvents}
      \cup UNION {{frame[t].pending[i] : i \in 1..Len(frame[t].pending)} : t \in Threads}

\* record h was filled as the resting side of a trade
FilledAtRest(h) == \E tr \in ExecutedSoFar : tr.resting = h

\* C37: when a cancel races with an add that matches the same resting order,
\* the order ends as after one of the two serial orders of the calls: a
\* resting order whose filled_quantity has reached its quantity never ends
\* CANCELLED.
C37_FilledNeverCancelled ==
    \A h \in Handles :
        (FilledAtRest(h) /\ recs[h].quantity > 0
            /\ recs[h].filled_quantity = recs[h].quantity)
                => recs[h].status # "CANCELLED"

\* C38: of two threads that cancel the same resting order at the same time,
\* exactly one returns true: no two calls for the same id are both past the
\* status test.
C38_OneCancelWins ==
    \A t \in Threads, u \in Threads :
        (t # u /\ PastStatusTest(t) /\ PastStatusTest(u)) => frame[t].id # frame[u].id

\* ---------------------------------------------------------------- C39
\* The engine's worker threads against stop_simulation, statement by
\* statement.  worker_threads_[w] is the position of worker w in
\* worker_thread_function; frame.pc is the position of the thread that calls
\* stop_simulation.  queue_mutex_ is held by a worker from its unique_lock
\* (line 24) to the end of that block, except while it is blocked in wait.
PoolWorkers == 1..StopWorkers

queue_mutex_ == {w \in PoolWorkers : worker_threads_[w] \in {"check", "wait", "woken"}}

\* the predicate of queue_cv_.wait, line 25
wait_predicate == task_queue_ # <<>> \/ shutdown_

StopInit ==
    /\ EmptyBook
    /\ lastOp = Refused("none")
    /\ next_order_id_ = 1
    /\ order_books_ = <<>>
    /\ orders_processed_ = 0
    /\ task_queue_ = <<>>
    /\ shutdown_ = FALSE
    /\ worker_threads_ = [w \in PoolWorkers |-> "loop"]
    /\ allocated = <<>>
    /\ returned = <<>>
    /\ registered = <<>>
    /\ invoked = {}
    /\ frame = [pc |-> "running"]

WorkerMoves(w, pc) ==
    /\ worker_threads_' = [worker_threads_ EXCEPT ![w] = pc]
    /\ UNCHANGED <<bookVars, lastOp, next_order_id_, frame, order_books_, shutdown_,
                   allocated, returned, registered, invoked>>

\* line 20: while (!shutdown_.load())
WorkerLoop(w) ==
    /\ worker_threads_[w] = "loop"
    /\ WorkerMoves(w, IF shutdown_ THEN "exited" ELSE "lock")
    /\ UNCHANGED <<task_queue_, orders_processed_>>

\* line 24: unique_lock on queue_mutex_
WorkerLock(w) ==
    /\ worker_threads_[w] = "lock"
    /\ queue_mutex_ = {}
    /\ WorkerMoves(w, "check")
    /\ UNCHANGED <<task_queue_, orders_processed_>>

\* line 25: wait(lock, pred) tests the predicate with the mutex held, on entry
\* and after each wake-up
WorkerCheck(w) ==
    /\ worker_threads_[w] = "check"
    /\ WorkerMoves(w, IF wait_predicate THEN "woken" ELSE "wait")
    /\ UNCHANGED <<task_queue_, orders_processed_>>

\* line 25: the predicate was false; wait(lock) releases the mutex and blocks
WorkerBlock(w) ==
    /\ worker_threads_[w] = "wait"
    /\ WorkerMoves(w, "blocked")
    /\ UNCHANGED <<task_queue_, orders_processed_>>

\* line 25: a notified worker takes the mutex again
WorkerWake(w) ==
    /\ worker_threads_[w] = "notified"
    /\ queue_mutex_ = {}
    /\ WorkerMoves(w, "check")
    /\ UNCHANGED <<task_queue_, orders_processed_>>

\* lines 27-44: break on shutdown; else the task is taken, run and counted
WorkerLeave(w) ==
    /\ worker_threads_[w] = "woken"
    /\ IF shutdown_
       THEN /\ WorkerMoves(w, "exited")
            /\ UNCHANGED <<task_queue_, orders_processed_>>
       ELSE /\ WorkerMoves(w, "loop")
            /\ task_queue_' = Tail(task_queue_)
            /\ orders_processed_' = fetch_add(orders_processed_)

StopperMoves(pc) ==
    /\ frame' = [frame EXCEPT !.pc = pc]
    /\ UNCHANGED <<bookVars, lastOp, next_order_id_, order_books_, orders_processed_,
                   task_queue_, allocated, returned, registered, invoked>>

\* line 191: shutdown_.store(true), queue_mutex_ not held
StopStore ==
    /\ frame.pc = "running"
    /\ shutdown_' = TRUE
    /\ StopperMoves("notify")
    /\ UNCHANGED worker_threads_

\* line 192: queue_cv_.notify_all() wakes the workers blocked in wait
StopNotify ==
    /\ frame.pc = "notify"
    /\ worker_threads_' = [w \in PoolWorkers |->
                             IF worker_threads_[w] = "blocked" THEN "notified"
                             ELSE worker_threads_[w]]
    /\ StopperMoves("join")
    /\ UNCHANGED shutdown_

\* lines 195-201: every worker is joined, worker_threads_ cleared
StopJoin ==
    /\ frame.pc = "join"
    /\ \A w \in PoolWorkers : worker_threads_[w] = "exited"
    /\ StopperMoves("stopped")
    /\ UNCHANGED <<shutdown_, worker_threads_>>

Worker(w) ==
    \/ WorkerLoop(w)
    \/ WorkerLock(w)
    \/ WorkerCheck(w)
    \/ WorkerBlock(w)
    \/ WorkerWake(w)
    \/ WorkerLeave(w)

StopNext ==
    \/ \E w \in PoolWorkers : Worker(w)
    \/ StopStore
    \/ StopNotify
    \/ StopJoin

\* every thread that can take its next statement eventually takes it
StopSpec ==
    /\ StopInit
    /\ [][StopNext]_vars
    /\ \A w \in PoolWorkers : WF_vars(Worker(w))
    /\ WF_vars(StopNotify)
    /\ WF_vars(StopJoin)

\* C39: stop_simulation terminates: once shutdown_ is set, every worker
\* leaves worker_thread_function and is joined, whatever the interleaving of
\* its predicate test and wait with the store and the notify_all.
C39_StopTerminates == shutdown_ ~> (frame.pc = "stopped")

\* a worker that was blocked when notify_all ran does leave
C39_NotifiedWorkerLeaves ==
    \A w \in PoolWorkers :
        (worker_threads_[w] = "notified") ~> (worker_threads_[w] = "exited")

\* ---------------------------------------------------------------- C40
\* the sum of the quantities of the orders submitted (records 1..n)
RECURSIVE SubmittedQuantity(_)
SubmittedQuantity(n) ==
    IF n = 0 THEN 0 ELSE recs[n].quantity + SubmittedQuantity(n - 1)

\* the sum of the remaining quantities of the resting orders among records 1..n
RECURSIVE RestingQuantity(_)
RestingQuantity(n) ==
    IF n = 0 THEN 0
    ELSE (IF n \in RestingHandles THEN remaining_quantity(recs[n]) ELSE 0)
         + RestingQuantity(n - 1)

\* no cancel and no modify has taken effect: each leaves a CANCELLED record
NeverCancelled == \A h \in Handles : recs[h].status # "CANCELLED"

\* C40: after any sequence of LIMIT submissions of positive quantity, without
\* cancels and modifies, the submitted quantities add up to twice
\* total_volume_ plus the remaining quantities of the resting orders.
C40_QuantityConserved ==
    (OnlyPositiveLimits /\ NeverCancelled)
        => SubmittedQuantity(Len(recs))
             = 2 * total_volume_ + RestingQuantity(Len(recs))

\* three LIMIT orders, one trade made, one order partly filled and resting
C40_Witness ==
    /\ OnlyPositiveLimits
    /\ NeverCancelled
    /\ Len(recs) = 3
    /\ total_volume_ > 0
    /\ \E h \in RestingHandles : recs[h].status = "PARTIALLY_FILLED"
    /\ \E h \in Handles : recs[h].status = "FILLED"

====
